---- MODULE Spec2Model ----
(***************************************************************************)
(* Bushmaster voxel ray tracer: the two-level acceleration structure.      *)
(*                                                                         *)
(* BLAS octree build (blas.ts), VoxelScene bookkeeping (voxelScene),       *)
(* TLAS SAH build (tlas.ts) and the stack traversal of bvhTraverse.wgsl.   *)
(*                                                                         *)
(* Numbers.  Coordinates are integers; every input is chosen so that each  *)
(* halving the code performs (size / 2, (min + max) / 2) is exact, hence   *)
(* the float arithmetic of the program is exact on these values.  Arrays   *)
(* are functions on 0 .. n-1 so that indices are the program's indices.    *)
(* Vectors are tuples <<x, y, z>> (component k of the source is k + 1).    *)
(***************************************************************************)
EXTENDS Integers, Sequences, FiniteSets, TLC

\* ------------------------------------------------------------------ bounds
MaxVoxels == 3
MaxBlas == 2
MaxInstances == 3

\* ------------------------------------------------------- program constants
Infinity == 1000000000
MAX_DISTANCE == 1000
MAX_STACK_SIZE == 32
INVALID_INDEX == -1

\* ------------------------------------------------------------ small helpers
Min2(a, b) == IF a <= b THEN a ELSE b
Max2(a, b) == IF a >= b THEN a ELSE b
Abs(a) == IF a < 0 THEN -a ELSE a
Half(a) == a \div 2

\* A JavaScript array as a function on 0 .. n-1.
ArrLen(f) == Cardinality(DOMAIN f)
EmptyArr == [i \in {} |-> 0]
ArrPush(f, x) == [i \in 0 .. ArrLen(f) |-> IF i < ArrLen(f) THEN f[i] ELSE x]
ArrSlice(f, from, to) == [i \in 0 .. (to - from - 1) |-> f[from + i]]
ArrConcat(f, g) ==
    [i \in 0 .. (ArrLen(f) + ArrLen(g) - 1) |->
        IF i < ArrLen(f) THEN f[i] ELSE g[i - ArrLen(f)]]
ArrOfSeq(s) == [i \in 0 .. (Len(s) - 1) |-> s[i + 1]]
\* The function f on 1 .. n as a tuple.
Tuple(f) == SubSeq(f, 1, Len(f))
SetMin(S) == CHOOSE m \in S : \A x \in S : m <= x
SetMax(S) == CHOOSE m \in S : \A x \in S : x <= m

\* Array.prototype.indexOf: the first index holding x, -1 when absent.
IndexOf(f, x) ==
    IF \E i \in DOMAIN f : f[i] = x
    THEN CHOOSE i \in DOMAIN f : f[i] = x /\ \A j \in DOMAIN f : f[j] = x => i <= j
    ELSE -1

\* ------------------------------------------------------------------- AABB
NewAABB == [min |-> <<Infinity, Infinity, Infinity>>,
            max |-> <<-Infinity, -Infinity, -Infinity>>]

expandByPoint(b, p) ==
    [min |-> <<Min2(b.min[1], p[1]), Min2(b.min[2], p[2]), Min2(b.min[3], p[3])>>,
     max |-> <<Max2(b.max[1], p[1]), Max2(b.max[2], p[2]), Max2(b.max[3], p[3])>>]

\* expandByPoint applied to every point of a set, in any order.
ExpandByPoints(b, points) ==
    [min |-> <<SetMin({b.min[1]} \cup {p[1] : p \in points}),
               SetMin({b.min[2]} \cup {p[2] : p \in points}),
               SetMin({b.min[3]} \cup {p[3] : p \in points})>>,
     max |-> <<SetMax({b.max[1]} \cup {p[1] : p \in points}),
               SetMax({b.max[2]} \cup {p[2] : p \in points}),
               SetMax({b.max[3]} \cup {p[3] : p \in points})>>]

expandByAABB(b, other) == expandByPoint(expandByPoint(b, other.min), other.max)

surfaceArea(b) ==
    LET width == b.max[1] - b.min[1]
        height == b.max[2] - b.min[2]
        depth == b.max[3] - b.min[3]
    IN 2 * (width * height + height * depth + depth * width)

getCenter(b) ==
    <<Half(b.min[1] + b.max[1]), Half(b.min[2] + b.max[2]), Half(b.min[3] + b.max[3])>>

containsPoint(b, p) ==
    /\ p[1] >= b.min[1] /\ p[1] <= b.max[1]
    /\ p[2] >= b.min[2] /\ p[2] <= b.max[2]
    /\ p[3] >= b.min[3] /\ p[3] <= b.max[3]

containsAABB(b, other) == containsPoint(b, other.min) /\ containsPoint(b, other.max)

\* A 4x4 matrix is the program's column-major array of 16 numbers, here a
\* tuple; M(m, k) is the program's m[k].
M(m, k) == m[k + 1]

\* A matrix with fractional entries (the inverse of a scaling) is written as
\* the numerators of its 16 entries over a common denominator, kept as a 17th
\* number; a matrix of 16 numbers has the denominator 1.
Den(m) == IF Len(m) > 16 THEN m[17] ELSE 1

TransformPoint(m, c) ==
    <<(M(m, 0) * c[1] + M(m, 4) * c[2] + M(m, 8) * c[3] + M(m, 12)) \div Den(m),
      (M(m, 1) * c[1] + M(m, 5) * c[2] + M(m, 9) * c[3] + M(m, 13)) \div Den(m),
      (M(m, 2) * c[1] + M(m, 6) * c[2] + M(m, 10) * c[3] + M(m, 14)) \div Den(m)>>

Corners(b) ==
    << <<b.min[1], b.min[2], b.min[3]>>, <<b.min[1], b.min[2], b.max[3]>>,
       <<b.min[1], b.max[2], b.min[3]>>, <<b.min[1], b.max[2], b.max[3]>>,
       <<b.max[1], b.min[2], b.min[3]>>, <<b.max[1], b.min[2], b.max[3]>>,
       <<b.max[1], b.max[2], b.min[3]>>, <<b.max[1], b.max[2], b.max[3]>> >>

applyMatrix(b, m) ==
    ExpandByPoints(NewAABB, {TransformPoint(m, Corners(b)[k]) : k \in 1 .. 8})

\* ------------------------------------------------------------------ Voxel
\* ref is the identity of the Voxel object (two voxels with equal fields are
\* still two objects; indexOf compares objects).
Voxel(ref, position, size, materialIdx, lodLevel) ==
    [ref |-> ref, position |-> position, size |-> size,
     materialIdx |-> materialIdx, lodLevel |-> lodLevel, occupancyMask |-> 255]

getMin(v) ==
    <<v.position[1] - Half(v.size), v.position[2] - Half(v.size), v.position[3] - Half(v.size)>>
getMax(v) ==
    <<v.position[1] + Half(v.size), v.position[2] + Half(v.size), v.position[3] + Half(v.size)>>

\* ------------------------------------------------------------------- BLAS
getOctantIndex(point, center) ==
    (IF point[1] >= center[1] THEN 1 ELSE 0)
    + (IF point[2] >= center[2] THEN 2 ELSE 0)
    + (IF point[3] >= center[3] THEN 4 ELSE 0)

calculateOctantAABB(parentAABB, octantIdx, centerPoint) ==
    LET useMaxX == (octantIdx % 2) = 1
        useMaxY == ((octantIdx \div 2) % 2) = 1
        useMaxZ == ((octantIdx \div 4) % 2) = 1
    IN [min |-> <<IF useMaxX THEN centerPoint[1] ELSE parentAABB.min[1],
                  IF useMaxY THEN centerPoint[2] ELSE parentAABB.min[2],
                  IF useMaxZ THEN centerPoint[3] ELSE parentAABB.min[3]>>,
        max |-> <<IF useMaxX THEN parentAABB.max[1] ELSE centerPoint[1],
                  IF useMaxY THEN parentAABB.max[2] ELSE centerPoint[2],
                  IF useMaxZ THEN parentAABB.max[3] ELSE centerPoint[3]>>]

\* The voxels of nodeVoxels (a sequence, in order) that fall into octant i.
OctantVoxels(nodeVoxels, center, i) ==
    LET InOctant(v) == getOctantIndex(v.position, center) = i
    IN SelectSeq(nodeVoxels, InOctant)

\* Math.max(0, ...voxels.map(v => v.lodLevel))
MaxLod(voxels) == SetMax({0} \cup {voxels[k].lodLevel : k \in DOMAIN voxels})

\* The voxel index a leaf stores: this.voxels.indexOf(nodeVoxels[0]).
LeafVoxelIndex_LocalIndex(voxels, nodeVoxels) == 0
LeafVoxelIndex(voxels, nodeVoxels) == IndexOf(voxels, nodeVoxels[1])

\* The fresh child node of blas.ts:140-148.  childIndices is the local array of
\* subdivideNode (the indices of the children it created for the node), kept
\* with the node; it is not part of what is uploaded.
NewChildNode(aabb, lod) ==
    [aabb |-> aabb, isLeaf |-> FALSE, firstChildOrVoxelIndex |-> 0, childCount |-> 0,
     materialIdx |-> 0, occupancyMask |-> 255, lodLevel |-> lod, childIndices |-> <<>>]

\* st = [nodes, nodeCount] is the part of the BLAS object the build mutates.
\* SubdivideOctants(st, ..., n) is the loop of blas.ts:125-153 after its
\* iterations i = 0 .. n - 1: the BLAS state and the local array childIndices.
RECURSIVE subdivideNode(_, _, _, _, _)
RECURSIVE SubdivideOctants(_, _, _, _, _, _, _)
SubdivideOctants(st, voxels, nodeIdx, nodeVoxels, center, currentLod, n) ==
    IF n = 0 THEN [st |-> st, childIndices |-> <<>>]
    ELSE LET prev == SubdivideOctants(st, voxels, nodeIdx, nodeVoxels, center,
                                      currentLod, n - 1)
             i == n - 1
             octant == OctantVoxels(nodeVoxels, center, i)
             \* const childNodeIdx = this.nodeCount++, the fresh node
             WithChild(nodes, childNodeIdx) ==
                 [nodes |-> nodes @@
                       (childNodeIdx :>
                            NewChildNode(calculateOctantAABB(nodes[nodeIdx].aabb, i, center),
                                         currentLod - 1)),
                  nodeCount |-> childNodeIdx + 1]
         IN IF Len(octant) > 0
            THEN [prev EXCEPT
                     !.st = subdivideNode(WithChild(@.nodes, @.nodeCount), voxels,
                                          @.nodeCount, octant, currentLod - 1),
                     !.childIndices = Append(@, prev.st.nodeCount)]
            ELSE prev

subdivideNode(st, voxels, nodeIdx, nodeVoxels, currentLod) ==
    LET node == st.nodes[nodeIdx] IN
    IF currentLod = 0 \/ Len(nodeVoxels) = 1
    THEN LET voxel == nodeVoxels[1]
             leaf == [node EXCEPT !.isLeaf = TRUE,
                                  !.firstChildOrVoxelIndex = LeafVoxelIndex(voxels, nodeVoxels),
                                  !.childCount = 0,
                                  !.materialIdx = voxel.materialIdx,
                                  !.occupancyMask = voxel.occupancyMask,
                                  !.lodLevel = voxel.lodLevel]
         IN [st EXCEPT !.nodes[nodeIdx] = leaf]
    ELSE LET center == getCenter(node.aabb)
             r == SubdivideOctants(st, voxels, nodeIdx, nodeVoxels, center, currentLod, 8)
             childCount == Len(r.childIndices)
             updated == IF childCount > 0
                        THEN [r.st.nodes[nodeIdx] EXCEPT
                                 !.isLeaf = FALSE,
                                 !.firstChildOrVoxelIndex = r.childIndices[1],
                                 !.childCount = childCount,
                                 !.childIndices = r.childIndices]
                        ELSE [r.st.nodes[nodeIdx] EXCEPT
                                 !.isLeaf = TRUE,
                                 !.firstChildOrVoxelIndex = LeafVoxelIndex(voxels, nodeVoxels),
                                 !.childCount = 0]
         IN [r.st EXCEPT !.nodes[nodeIdx] = updated]

\* The root box of buildTree: a new AABB expanded by the min and the max
\* corner of every voxel.
RootAABB(voxels) ==
    ExpandByPoints(NewAABB, {getMin(voxels[k]) : k \in DOMAIN voxels}
                            \cup {getMax(voxels[k]) : k \in DOMAIN voxels})

SeqOfArr(f) == [k \in 1 .. ArrLen(f) |-> f[k - 1]]

\* BLAS.buildTree: the root node, then the recursive subdivision.
BlasBuildTree(voxels, maxLodLevel) ==
    LET root == NewChildNode(RootAABB(voxels), maxLodLevel)
        st0 == [nodes |-> (0 :> root), nodeCount |-> 1]
    IN subdivideNode(st0, voxels, 0, SeqOfArr(voxels), maxLodLevel)

\* new BLAS(id, voxels).  nodesLength is nodes.length: the pre-sized length,
\* which a JavaScript array raises when an index past it is assigned.
NewBLAS(id, voxels) ==
    LET maxLodLevel == MaxLod(voxels)
        st == BlasBuildTree(voxels, maxLodLevel)
    IN [id |-> id, voxels |-> voxels, nodes |-> st.nodes, rootNodeIdx |-> 0,
        nodeCount |-> st.nodeCount, maxLodLevel |-> maxLodLevel,
        nodesLength |-> Max2(Max2(1, ArrLen(voxels) * 2), st.nodeCount)]

\* BLAS.getNodes
BlasGetNodes(blas) == ArrSlice(blas.nodes, 0, blas.nodeCount)

\* ------------------------------------------------------------------- TLAS
\* Array.prototype.sort with the comparator centerA - centerB on one axis:
\* a stable sort (ECMAScript 2019) of the node indices by AABB centre.
CenterOn(nodes, a, axis) == getCenter(nodes[a].aabb)[axis + 1]

SortKeys(nodes, list, axis) ==
    Tuple([k \in 1 .. Len(list) |-> CenterOn(nodes, list[k], axis)])
\* The place the k-th element takes: behind the elements of a smaller key and
\* the earlier elements of the same key.
SortRanks(key) ==
    Tuple([k \in 1 .. Len(key) |->
              Cardinality({j \in 1 .. Len(key) :
                              key[j] < key[k] \/ (key[j] = key[k] /\ j < k)}) + 1])
SortByRanks(list, rank) ==
    Tuple([p \in 1 .. Len(list) |-> list[CHOOSE k \in 1 .. Len(list) : rank[k] = p]])
SortByAxis(nodes, list, axis) ==
    SortByRanks(list, SortRanks(SortKeys(nodes, list, axis)))

\* The union box of list[from .. to]: a new AABB expanded by each box.
UnionAABB(nodes, list, from, to) ==
    ExpandByPoints(NewAABB, {nodes[list[k]].aabb.min : k \in from .. to}
                            \cup {nodes[list[k]].aabb.max : k \in from .. to})

\* cost = leftSA * leftCount + rightSA * rightCount for the split of the
\* (sorted) list after its first i elements.
SplitCost(nodes, list, i) ==
    surfaceArea(UnionAABB(nodes, list, 1, i)) * i
    + surfaceArea(UnionAABB(nodes, list, i + 1, Len(list))) * (Len(list) - i)

SplitCosts(nodes, list) ==
    IF Len(list) < 2 THEN <<>>
    ELSE Tuple([i \in 1 .. (Len(list) - 1) |-> SplitCost(nodes, list, i)])

\* The loops of findBestSplit replace the best split only by one of strictly
\* smaller cost, starting from Infinity: the result is the first split, in the
\* order (axis, i) of the loops, of the least cost.  cost[a][i] is the cost of
\* the split after i elements on axis a - 1.
LeastCost(cost) ==
    SetMin({Infinity} \cup UNION {{cost[a][i] : i \in DOMAIN cost[a]} : a \in 1 .. 3})
BestAxis(cost, bestCost) ==
    SetMin({a \in 1 .. 3 : \E i \in DOMAIN cost[a] : cost[a][i] = bestCost})
BestIndex(axisCost, bestCost) ==
    SetMin({i \in DOMAIN axisCost : axisCost[i] = bestCost})
BestSplit(cost, bestCost, list) ==
    IF bestCost < Infinity
    THEN [axis |-> BestAxis(cost, bestCost) - 1,
          splitIndex |-> BestIndex(cost[BestAxis(cost, bestCost)], bestCost),
          list |-> list]
    ELSE [axis |-> -1, splitIndex |-> -1, list |-> list]

\* findBestSplit.  Each axis sorts the caller's array in place, so the list an
\* axis sorts is the list the previous axis left behind; the field list of the
\* result is the caller's array as the three sorts leave it.
findBestSplit(nodes, nodeIndices) ==
    LET Search(cost, list) == BestSplit(cost, LeastCost(cost), list)
        AxisZ(sortedX, sortedY, sortedZ) ==
            Search(<<SplitCosts(nodes, sortedX), SplitCosts(nodes, sortedY),
                     SplitCosts(nodes, sortedZ)>>, sortedZ)
        AxisY(sortedX, sortedY) == AxisZ(sortedX, sortedY, SortByAxis(nodes, sortedY, 2))
        AxisX(sortedX) == AxisY(sortedX, SortByAxis(nodes, sortedX, 1))
    IN AxisX(SortByAxis(nodes, nodeIndices, 0))

\* The order in which buildHierarchy slices the list once the split is known.
ResortForSplit_KeepSearchOrder(nodes, list, axis) == list
ResortForSplit(nodes, list, axis) == SortByAxis(nodes, list, axis)

SliceAt(list, i) ==
    [left |-> SubSeq(list, 1, i), right |-> SubSeq(list, i + 1, Len(list))]

\* The left / right lists buildHierarchy recurses into (tlas.ts:93-114).
SplitLists(nodes, nodeIndices) ==
    LET Slices(s) ==
            IF s.axis = -1 \/ s.splitIndex = -1
            THEN SliceAt(s.list, Len(s.list) \div 2)
            ELSE SliceAt(ResortForSplit(nodes, s.list, s.axis), s.splitIndex)
    IN Slices(findBestSplit(nodes, nodeIndices))

\* The parent node of tlas.ts:120-131: its box is expanded by the boxes of
\* both children (not by the left one alone).
TlasParent_LeftBox(nodes, left, right) ==
    [aabb |-> expandByAABB(NewAABB, nodes[left].aabb),
     left |-> left, right |-> right, blasInstanceIndex |-> INVALID_INDEX]
TlasParent(nodes, left, right) ==
    [aabb |-> expandByAABB(expandByAABB(NewAABB, nodes[left].aabb), nodes[right].aabb),
     left |-> left, right |-> right, blasInstanceIndex |-> INVALID_INDEX]

\* The store of the parent node (tlas.ts:125-131): the node is written at
\* index nodeCount, and nodeCount is incremented.
PushParent(st, left, right) ==
    [nodes |-> st.nodes @@ (st.nodeCount :> TlasParent(st.nodes, left, right)),
     nodeCount |-> st.nodeCount + 1]

\* st = [nodes, nodeCount]; the result carries the index of the subtree root.
\* Called on lists of at least one index (the empty list never returns, see
\* NewTLAS).  The left subtree is built first, the right one on the array the
\* left one leaves, and the parent is stored in the array the right one
\* leaves, at the nodeCount it has then.
RECURSIVE buildHierarchy(_, _)
buildHierarchy(st, nodeIndices) ==
    IF Len(nodeIndices) = 1 THEN [st |-> st, idx |-> nodeIndices[1]]
    ELSE LET parts == SplitLists(st.nodes, nodeIndices)
             l == buildHierarchy(st, parts.left)
             r == buildHierarchy(l.st, parts.right)
         IN [r EXCEPT !.idx = r.st.nodeCount,
                      !.st = PushParent(@, l.idx, r.idx)]

\* The leaf loop of TLAS.buildTree.  blasMap is the scene's offset -> BLAS map
\* (a sequence of [offset, blas] entries); an instance whose offset is not a
\* key is skipped.
MapHas(blasMap, offset) == \E k \in 1 .. Len(blasMap) : blasMap[k].offset = offset
MapGet(blasMap, offset) ==
    blasMap[CHOOSE k \in 1 .. Len(blasMap) : blasMap[k].offset = offset].blas

\* nodeCount starts at 1 (slot 0 is kept for the root): the k-th instance
\* whose offset is a key gets the leaf node k.
TlasLeaf(blasInstances, blasMap, i) ==
    [aabb |-> applyMatrix(MapGet(blasMap, blasInstances[i].blasOffset).nodes[0].aabb,
                          blasInstances[i].transform),
     left |-> 0, right |-> 0, blasInstanceIndex |-> i]

KnownInstances(blasInstances, blasMap) ==
    LET Known(i) == MapHas(blasMap, blasInstances[i].blasOffset)
    IN SelectSeq([k \in 1 .. ArrLen(blasInstances) |-> k - 1], Known)

TlasLeaves(blasInstances, blasMap) ==
    LET Leaves(known) ==
            [st |-> [nodes |-> Tuple([k \in 1 .. Len(known) |->
                                         TlasLeaf(blasInstances, blasMap, known[k])]),
                     nodeCount |-> 1 + Len(known)],
             leafNodes |-> Tuple([k \in 1 .. Len(known) |-> k])]
    IN Leaves(KnownInstances(blasInstances, blasMap))

\* new TLAS(blasInstances, blasMap) when at least one leaf is created: the
\* leaves and the hierarchy are allocated behind slot 0, and the root is then
\* copied to slot 0.
NewTLAS(blasInstances, blasMap) ==
    LET Root(h) == [nodes |-> (0 :> h.st.nodes[h.idx]) @@ h.st.nodes,
                    nodeCount |-> h.st.nodeCount]
        Hierarchy(lv) == Root(buildHierarchy(lv.st, lv.leafNodes))
    IN Hierarchy(TlasLeaves(blasInstances, blasMap))

\* The number of leaves the leaf loop would create.
TlasLeafCount(blasInstances, blasMap) ==
    Cardinality({i \in DOMAIN blasInstances : MapHas(blasMap, blasInstances[i].blasOffset)})

\* TLAS.getNodes
TlasGetNodes(tlas) == ArrSlice(tlas.nodes, 0, tlas.nodeCount)

\* ------------------------------------------------------------- VoxelScene
VARIABLES
    blasArray,       \* VoxelScene.blasArray: the BLAS objects, in creation order
    blasOffsetMap,   \* VoxelScene.blasOffsetMap: entries [offset, blas], insertion order
    totalNodeCount,  \* VoxelScene.totalNodeCount
    blasInstances,   \* VoxelScene.blasInstances
    tlas,            \* VoxelScene.tlas (NoTLAS while undefined)
    lastOp,          \* the scene operation that ran last
    returned,        \* what the last observed call returned: [call, value]
    buffers,         \* the storage buffers VoxelBufferManager uploaded last
    pc,              \* position of the ray traversal
    ray,             \* the world-space ray being traced
    tlasStack,       \* traceTLAS: stack[0 .. stackPtr-1]
    hitInfo,         \* traceTLAS: hitInfo
    blasStack,       \* traceBLAS: stack[0 .. stackPtr-1]
    localHit,        \* traceBLAS: hitInfo
    curInstance      \* traceBLAS: the instance being traversed

sceneVars == <<blasArray, blasOffsetMap, totalNodeCount, blasInstances, tlas, lastOp, returned>>
traceVars == <<buffers, pc, ray, tlasStack, hitInfo, blasStack, localHit, curInstance>>
vars == <<blasArray, blasOffsetMap, totalNodeCount, blasInstances, tlas, lastOp, returned,
          buffers, pc, ray, tlasStack, hitInfo, blasStack, localHit, curInstance>>

NoTLAS == [nodes |-> EmptyArr, nodeCount |-> 0]
\* No call whose return value the model keeps has been made.
NoReturn == [call |-> "none", arg |-> "", value |-> 0]

\* Map.prototype.set: a new key is appended, an existing key keeps its place.
MapSet(m, offset, blas) ==
    IF MapHas(m, offset)
    THEN [k \in 1 .. Len(m) |->
             IF m[k].offset = offset THEN [offset |-> offset, blas |-> blas] ELSE m[k]]
    ELSE Append(m, [offset |-> offset, blas |-> blas])

\* VoxelScene.getBlasOffset: the first entry, in insertion order, whose BLAS
\* carries the id; 0 when there is none.
\* return 0; behind the loop that found no BLAS with the id (not -1).
NotFoundOffset_Invalid == INVALID_INDEX
NotFoundOffset == 0

getBlasOffset(m, id) ==
    IF \E k \in 1 .. Len(m) : m[k].blas.id = id
    THEN m[CHOOSE k \in 1 .. Len(m) :
               /\ m[k].blas.id = id
               /\ \A j \in 1 .. Len(m) : m[j].blas.id = id => k <= j].offset
    ELSE NotFoundOffset

\* A call of VoxelScene.getBlasOffset(id) on its own: only its return value
\* is new.
GetBlasOffset(id) ==
    /\ returned' = [call |-> "getBlasOffset", arg |-> id,
                     value |-> getBlasOffset(blasOffsetMap, id)]
    /\ UNCHANGED <<blasArray, blasOffsetMap, totalNodeCount, blasInstances, tlas, lastOp>>
    /\ UNCHANGED traceVars

\* The offset createBLAS advances totalNodeCount by.
OffsetAdvance_UsedNodes(blas) == blas.nodeCount
OffsetAdvance(blas) == blas.nodesLength

\* VoxelScene.getFlattenedBlasNodes / getFlattenedVoxels
RECURSIVE FlattenNodes(_, _)
FlattenNodes(blases, k) ==
    IF k >= ArrLen(blases) THEN EmptyArr
    ELSE ArrConcat(BlasGetNodes(blases[k]), FlattenNodes(blases, k + 1))

RECURSIVE FlattenVoxels(_, _)
FlattenVoxels(blases, k) ==
    IF k >= ArrLen(blases) THEN EmptyArr
    ELSE ArrConcat(blases[k].voxels, FlattenVoxels(blases, k + 1))

getFlattenedBlasNodes == FlattenNodes(blasArray, 0)
getFlattenedVoxels == FlattenVoxels(blasArray, 0)

\* Column-major translation matrix and its inverse, as the callers write them
\* (voxelScene createDemoScene: [1,0,0,0, 0,1,0,0, 0,0,1,0, 0,5,0,1]).
Translation(d) ==
    <<1, 0, 0, 0,  0, 1, 0, 0,  0, 0, 1, 0,  d[1], d[2], d[3], 1>>

Negate(d) == <<-d[1], -d[2], -d[3]>>

\* ---------------------------------------------------------------------- Mat4
\* Matrices are the 16 numbers of the source array, M(m, k) is m[k].  The
\* entries are integers; inverse divides by the determinant, which is exact
\* for the determinants -1, 0 and 1 the inputs of the model have.
identity == <<1, 0, 0, 0,  0, 1, 0, 0,  0, 0, 1, 0,  0, 0, 0, 1>>

\* Mat4.multiply: result[i * 4 + j] += a[i * 4 + k] * b[k * 4 + j]
multiply(a, b) ==
    [n \in 1 .. 16 |->
        LET i == (n - 1) \div 4
            j == (n - 1) % 4
        IN M(a, i * 4) * M(b, j) + M(a, i * 4 + 1) * M(b, 4 + j)
           + M(a, i * 4 + 2) * M(b, 8 + j) + M(a, i * 4 + 3) * M(b, 12 + j)]

\* Mat4.inverse: the determinant (mat4.ts 64-84).
Determinant(m) ==
      M(m, 0) * ( M(m, 5) * (M(m, 10) * M(m, 15) - M(m, 11) * M(m, 14)) - M(m, 9) * (M(m, 6) * M(m, 15) - M(m, 7) * M(m, 14)) + M(m, 13) * (M(m, 6) * M(m, 11) - M(m, 7) * M(m, 10)) )
    - M(m, 4) * ( M(m, 1) * (M(m, 10) * M(m, 15) - M(m, 11) * M(m, 14)) - M(m, 9) * (M(m, 2) * M(m, 15) - M(m, 3) * M(m, 14)) + M(m, 13) * (M(m, 2) * M(m, 11) - M(m, 3) * M(m, 10)) )
    + M(m, 8) * ( M(m, 1) * (M(m, 6) * M(m, 15) - M(m, 7) * M(m, 14)) - M(m, 5) * (M(m, 2) * M(m, 15) - M(m, 3) * M(m, 14)) + M(m, 13) * (M(m, 2) * M(m, 7) - M(m, 3) * M(m, 6)) )
    - M(m, 12) * ( M(m, 1) * (M(m, 6) * M(m, 11) - M(m, 7) * M(m, 10)) - M(m, 5) * (M(m, 2) * M(m, 11) - M(m, 3) * M(m, 10)) + M(m, 9) * (M(m, 2) * M(m, 7) - M(m, 3) * M(m, 6)) )

\* Mat4.inverse past the singular test: result[k] = (+/-)invDet * cofactor
\* (mat4.ts 92-175), k = 0 .. 15 in order.
AdjugateTimes(m, invDet) ==
    <<invDet * (M(m, 5) * (M(m, 10) * M(m, 15) - M(m, 11) * M(m, 14)) - M(m, 9) * (M(m, 6) * M(m, 15) - M(m, 7) * M(m, 14)) + M(m, 13) * (M(m, 6) * M(m, 11) - M(m, 7) * M(m, 10))),
      -invDet * (M(m, 1) * (M(m, 10) * M(m, 15) - M(m, 11) * M(m, 14)) - M(m, 9) * (M(m, 2) * M(m, 15) - M(m, 3) * M(m, 14)) + M(m, 13) * (M(m, 2) * M(m, 11) - M(m, 3) * M(m, 10))),
      invDet * (M(m, 1) * (M(m, 6) * M(m, 15) - M(m, 7) * M(m, 14)) - M(m, 5) * (M(m, 2) * M(m, 15) - M(m, 3) * M(m, 14)) + M(m, 13) * (M(m, 2) * M(m, 7) - M(m, 3) * M(m, 6))),
      -invDet * (M(m, 1) * (M(m, 6) * M(m, 11) - M(m, 7) * M(m, 10)) - M(m, 5) * (M(m, 2) * M(m, 11) - M(m, 3) * M(m, 10)) + M(m, 9) * (M(m, 2) * M(m, 7) - M(m, 3) * M(m, 6))),
      -invDet * (M(m, 4) * (M(m, 10) * M(m, 15) - M(m, 11) * M(m, 14)) - M(m, 8) * (M(m, 6) * M(m, 15) - M(m, 7) * M(m, 14)) + M(m, 12) * (M(m, 6) * M(m, 11) - M(m, 7) * M(m, 10))),
      invDet * (M(m, 0) * (M(m, 10) * M(m, 15) - M(m, 11) * M(m, 14)) - M(m, 8) * (M(m, 2) * M(m, 15) - M(m, 3) * M(m, 14)) + M(m, 12) * (M(m, 2) * M(m, 11) - M(m, 3) * M(m, 10))),
      -invDet * (M(m, 0) * (M(m, 6) * M(m, 15) - M(m, 7) * M(m, 14)) - M(m, 4) * (M(m, 2) * M(m, 15) - M(m, 3) * M(m, 14)) + M(m, 12) * (M(m, 2) * M(m, 7) - M(m, 3) * M(m, 6))),
      invDet * (M(m, 0) * (M(m, 6) * M(m, 11) - M(m, 7) * M(m, 10)) - M(m, 4) * (M(m, 2) * M(m, 11) - M(m, 3) * M(m, 10)) + M(m, 8) * (M(m, 2) * M(m, 7) - M(m, 3) * M(m, 6))),
      invDet * (M(m, 4) * (M(m, 9) * M(m, 15) - M(m, 11) * M(m, 13)) - M(m, 8) * (M(m, 5) * M(m, 15) - M(m, 7) * M(m, 13)) + M(m, 12) * (M(m, 5) * M(m, 11) - M(m, 7) * M(m, 9))),
      -invDet * (M(m, 0) * (M(m, 9) * M(m, 15) - M(m, 11) * M(m, 13)) - M(m, 8) * (M(m, 1) * M(m, 15) - M(m, 3) * M(m, 13)) + M(m, 12) * (M(m, 1) * M(m, 11) - M(m, 3) * M(m, 9))),
      invDet * (M(m, 0) * (M(m, 5) * M(m, 15) - M(m, 7) * M(m, 13)) - M(m, 4) * (M(m, 1) * M(m, 15) - M(m, 3) * M(m, 13)) + M(m, 12) * (M(m, 1) * M(m, 7) - M(m, 3) * M(m, 5))),
      -invDet * (M(m, 0) * (M(m, 5) * M(m, 9) - M(m, 7) * M(m, 8)) - M(m, 4) * (M(m, 1) * M(m, 9) - M(m, 3) * M(m, 8)) + M(m, 8) * (M(m, 1) * M(m, 5) - M(m, 3) * M(m, 4))),
      -invDet * (M(m, 4) * (M(m, 9) * M(m, 14) - M(m, 10) * M(m, 13)) - M(m, 8) * (M(m, 5) * M(m, 14) - M(m, 6) * M(m, 13)) + M(m, 12) * (M(m, 5) * M(m, 10) - M(m, 6) * M(m, 9))),
      invDet * (M(m, 0) * (M(m, 9) * M(m, 14) - M(m, 10) * M(m, 13)) - M(m, 8) * (M(m, 1) * M(m, 14) - M(m, 2) * M(m, 13)) + M(m, 12) * (M(m, 1) * M(m, 10) - M(m, 2) * M(m, 9))),
      -invDet * (M(m, 0) * (M(m, 5) * M(m, 14) - M(m, 6) * M(m, 13)) - M(m, 4) * (M(m, 1) * M(m, 14) - M(m, 2) * M(m, 13)) + M(m, 12) * (M(m, 1) * M(m, 6) - M(m, 2) * M(m, 5))),
      invDet * (M(m, 0) * (M(m, 5) * M(m, 10) - M(m, 6) * M(m, 9)) - M(m, 4) * (M(m, 1) * M(m, 10) - M(m, 2) * M(m, 9)) + M(m, 8) * (M(m, 1) * M(m, 6) - M(m, 2) * M(m, 5)))>>

\* if (Math.abs(determinant) < 1e-6): on integers, determinant = 0.
Singular(determinant) == Abs(determinant) < 1

\* What inverse returns for a singular matrix: Mat4.identity(), not the
\* zero-filled result array.
SingularResult_ZeroFilled == <<0, 0, 0, 0,  0, 0, 0, 0,  0, 0, 0, 0,  0, 0, 0, 0>>
SingularResult == identity

\* Mat4.inverse(m); m is only read.
inverse(m) ==
    IF Singular(Determinant(m)) THEN SingularResult
    ELSE AdjugateTimes(m, 1 \div Determinant(m))

\* new BLAS(id, []) : maxLodLevel = Math.max(0) = 0, so subdivideNode(0, [], 0)
\* takes its base case, where voxel = nodeVoxels[0] is undefined and
\* voxel.materialIdx throws a TypeError (blas.ts:99-103).  Every other call
\* of subdivideNode gets a non-empty list (the root's non-empty list, or a
\* non-empty octant).
NewBlasThrows(voxels) == ArrLen(voxels) = 0

\* VoxelScene.createBLAS(id, voxels).  When the constructor throws, nothing
\* has been pushed or registered yet.
CreateBLAS(id, voxels) ==
    /\ ArrLen(blasArray) < MaxBlas
    /\ IF NewBlasThrows(voxels)
       THEN /\ lastOp' = "createBLAS threw"
            /\ UNCHANGED <<blasArray, blasOffsetMap, totalNodeCount>>
       ELSE /\ LET blas == NewBLAS(id, voxels)
                   offset == totalNodeCount
               IN /\ blasArray' = ArrPush(blasArray, blas)
                  /\ blasOffsetMap' = MapSet(blasOffsetMap, offset, blas)
                  /\ totalNodeCount' = totalNodeCount + OffsetAdvance(blas)
            /\ lastOp' = "createBLAS"
    /\ UNCHANGED <<blasInstances, tlas, returned>>
    /\ UNCHANGED traceVars

\* The callers' instance push (voxelEngine.ts:101-106, voxelScene:253-258):
\* blasInstances.push({transform, transformInverse,
\*                     blasOffset: getBlasOffset(id), materialIdx}).
AddInstance(id, d, materialIdx) ==
    /\ ArrLen(blasInstances) < MaxInstances
    /\ blasInstances' = ArrPush(blasInstances,
           [transform |-> Translation(d), transformInverse |-> Translation(Negate(d)),
            blasOffset |-> getBlasOffset(blasOffsetMap, id), materialIdx |-> materialIdx])
    /\ lastOp' = "addInstance"
    /\ UNCHANGED <<blasArray, blasOffsetMap, totalNodeCount, tlas, returned>>
    /\ UNCHANGED traceVars

\* An instance as createFractalInstances makes it: transformInverse is
\* Mat4.inverse(transform), computed before the push.
AddTransformedInstance(id, m) ==
    /\ ArrLen(blasInstances) < MaxInstances
    /\ blasInstances' = ArrPush(blasInstances,
           [transform |-> m, transformInverse |-> inverse(m),
            blasOffset |-> getBlasOffset(blasOffsetMap, id), materialIdx |-> 0])
    /\ lastOp' = "addInstance"
    /\ UNCHANGED <<blasArray, blasOffsetMap, totalNodeCount, tlas, returned>>
    /\ UNCHANGED traceVars

\* this.tlas = new TLAS(this.blasInstances, this.blasOffsetMap): the new
\* object takes the place of the previous one, whose nodes are not kept.
ReplacedTLAS_KeepsOldNodes(previous, instances, blasMap) ==
    [nodes |-> previous.nodes @@ NewTLAS(instances, blasMap).nodes,
     nodeCount |-> NewTLAS(instances, blasMap).nodeCount]
ReplacedTLAS(previous, instances, blasMap) == NewTLAS(instances, blasMap)

\* VoxelScene.buildTLAS.  With no leaf to build on, buildHierarchy([]) calls
\* itself on two empty slices without end: the constructor throws
\* (RangeError) and this.tlas keeps its previous value.
BuildTLAS ==
    /\ IF TlasLeafCount(blasInstances, blasOffsetMap) = 0
       THEN /\ tlas' = tlas
            /\ lastOp' = "buildTLAS threw"
       ELSE /\ tlas' = ReplacedTLAS(tlas, blasInstances, blasOffsetMap)
            /\ lastOp' = "buildTLAS"
    /\ UNCHANGED <<blasArray, blasOffsetMap, totalNodeCount, blasInstances, returned>>
    /\ UNCHANGED traceVars

\* ------------------------------------------------------ VoxelBufferManager
\* A negative number stored through a Uint32Array wraps; Uint32Max stands for
\* 0xFFFFFFFF (the model's integers are 32-bit signed, every genuine index is
\* far below it).
Uint32Max == 2147483647
ToUint32(x) == IF x < 0 THEN Uint32Max + (x + 1) ELSE x

\* The bitwise operators of the packing and of the shader helpers, on
\* non-negative integers below 2^31 (bit by bit, least significant first).
RECURSIVE BitOr(_, _)
BitOr(a, b) ==
    IF a = 0 THEN b
    ELSE IF b = 0 THEN a
    ELSE Max2(a % 2, b % 2) + 2 * BitOr(a \div 2, b \div 2)
RECURSIVE BitAnd(_, _)
BitAnd(a, b) ==
    IF a = 0 \/ b = 0 THEN 0
    ELSE (a % 2) * (b % 2) + 2 * BitAnd(a \div 2, b \div 2)
ShiftLeft(a, n) == a * (2 ^ n)
ShiftRight(a, n) == a \div (2 ^ n)

\* (node.lodLevel & 0xFF) << 8
LodField_ShiftSeven(lodLevel) == ShiftLeft(BitAnd(lodLevel, 255), 7)
LodField(lodLevel) == ShiftLeft(BitAnd(lodLevel, 255), 8)

\* flags = isLeaf | (childCount & 0x7F) << 1 | (lodLevel & 0xFF) << 8
\*         | (occupancyMask & 0xFF) << 16
PackFlags(node) ==
    BitOr(BitOr(BitOr(IF node.isLeaf THEN 1 ELSE 0,
                      ShiftLeft(BitAnd(node.childCount, 127), 1)),
                LodField(node.lodLevel)),
          ShiftLeft(BitAnd(node.occupancyMask, 255), 16))

isLeafNode(flags) == BitAnd(flags, 1) # 0
getChildCount(flags) == BitAnd(ShiftRight(flags, 1), 127)
getLodLevel(flags) == BitAnd(ShiftRight(flags, 8), 255)
getOccupancyMask(flags) == BitAnd(ShiftRight(flags, 16), 255)

BlasNodeBuffer(nodes) ==
    [i \in DOMAIN nodes |->
        [aabbMin |-> nodes[i].aabb.min, flags |-> PackFlags(nodes[i]),
         aabbMax |-> nodes[i].aabb.max,
         firstChildOrVoxelIndex |-> ToUint32(nodes[i].firstChildOrVoxelIndex)]]

TlasNodeBuffer(nodes) ==
    [i \in DOMAIN nodes |->
        [aabbMin |-> nodes[i].aabb.min, left |-> ToUint32(nodes[i].left),
         aabbMax |-> nodes[i].aabb.max, right |-> ToUint32(nodes[i].right),
         blasInstanceIndex |-> ToUint32(nodes[i].blasInstanceIndex)]]

VoxelBuffer(voxels) ==
    [i \in DOMAIN voxels |->
        [position |-> voxels[i].position, materialIdx |-> ToUint32(voxels[i].materialIdx),
         size |-> voxels[i].size, occupancyMask |-> ToUint32(voxels[i].occupancyMask),
         lodLevel |-> ToUint32(voxels[i].lodLevel)]]

BlasInstanceBuffer(instances) ==
    [i \in DOMAIN instances |->
        [transform |-> instances[i].transform,
         transformInverse |-> instances[i].transformInverse,
         blasOffset |-> ToUint32(instances[i].blasOffset),
         materialIdx |-> ToUint32(instances[i].materialIdx)]]

NoBuffers == [voxels |-> EmptyArr, blasNodes |-> EmptyArr, tlasNodes |-> EmptyArr,
              blasInstances |-> EmptyArr]

\* VoxelBufferManager.updateBuffers; scene.tlas.getNodes() needs a built TLAS.
UpdateBuffers ==
    /\ tlas # NoTLAS
    /\ pc \in {"idle", "done"}
    /\ buffers' = [voxels |-> VoxelBuffer(getFlattenedVoxels),
                   blasNodes |-> BlasNodeBuffer(getFlattenedBlasNodes),
                   tlasNodes |-> TlasNodeBuffer(TlasGetNodes(tlas)),
                   blasInstances |-> BlasInstanceBuffer(blasInstances)]
    /\ pc' = "idle"
    /\ UNCHANGED sceneVars
    /\ UNCHANGED <<ray, tlasStack, hitInfo, blasStack, localHit, curInstance>>

\* -------------------------------------------------------------- intersection
\* Rays are axis aligned: one direction component is +1 or -1, the others 0.
\* 1.0 / 0.0 is +Infinity, and x * Infinity is +Infinity, -Infinity or (x = 0)
\* NaN.  IsNaNCase tells the NaN case apart; the rays of the model avoid it.
InvD(d) == IF d = 0 THEN Infinity ELSE d

ExtMul(x, inv) ==
    IF inv = Infinity
    THEN (IF x > 0 THEN Infinity ELSE IF x < 0 THEN -Infinity ELSE 0)
    ELSE x * inv

IsNaNCase(r, boxMin, boxMax) ==
    \E k \in 1 .. 3 : r.direction[k] = 0 /\ (boxMin[k] = r.origin[k] \/ boxMax[k] = r.origin[k])

Max3(a, b, c) == Max2(Max2(a, b), c)
Min3(a, b, c) == Min2(Min2(a, b), c)

\* The test that turns an AABB entry distance into a miss.
AabbMiss_OnlyBehind(t_min, t_max) == t_max < 0
AabbMiss(t_min, t_max) == t_max < 0 \/ t_min > t_max

intersectAABB(r, boxMin, boxMax) ==
    LET t1 == [k \in 1 .. 3 |-> ExtMul(boxMin[k] - r.origin[k], InvD(r.direction[k]))]
        t2 == [k \in 1 .. 3 |-> ExtMul(boxMax[k] - r.origin[k], InvD(r.direction[k]))]
        tMin == [k \in 1 .. 3 |-> Min2(t1[k], t2[k])]
        tMax == [k \in 1 .. 3 |-> Max2(t1[k], t2[k])]
        t_min == Max3(tMin[1], tMin[2], tMin[3])
        t_max == Min3(tMax[1], tMax[2], tMax[3])
    IN IF AabbMiss(t_min, t_max) THEN -1 ELSE t_min

\* var hitInfo: HitInfo; hitInfo.hit = false; hitInfo.t = MAX_DISTANCE;
NoHit == [hit |-> FALSE, t |-> MAX_DISTANCE, position |-> <<0, 0, 0>>,
          normal |-> <<0, 0, 0>>, material |-> 0]

Sign(x) == IF x > 0 THEN 1 ELSE IF x < 0 THEN -1 ELSE 0

\* let maxDist = max(max(distToFace.x, distToFace.y), distToFace.z);
FaceDist_Least(dist) == Min3(dist[1], dist[2], dist[3])
FaceDist(dist) == Max3(dist[1], dist[2], dist[3])

\* The face of the hit: the first axis whose distance to the centre is
\* within EPSILON of the largest one (on integer coordinates: equal to it).
FaceNormal(hitPos, center) ==
    LET dist == <<Abs(hitPos[1] - center[1]), Abs(hitPos[2] - center[2]),
                  Abs(hitPos[3] - center[3])>>
        maxDist == FaceDist(dist)
    IN IF dist[1] = maxDist THEN <<Sign(hitPos[1] - center[1]), 0, 0>>
       ELSE IF dist[2] = maxDist THEN <<0, Sign(hitPos[2] - center[2]), 0>>
       ELSE <<0, 0, Sign(hitPos[3] - center[3])>>

intersectVoxel(r, voxel) ==
    LET halfSize == Half(voxel.size)
        boxMin == <<voxel.position[1] - halfSize, voxel.position[2] - halfSize,
                    voxel.position[3] - halfSize>>
        boxMax == <<voxel.position[1] + halfSize, voxel.position[2] + halfSize,
                    voxel.position[3] + halfSize>>
        t == intersectAABB(r, boxMin, boxMax)
    IN IF t > 0 /\ t < MAX_DISTANCE
       THEN LET hitPos == <<r.origin[1] + r.direction[1] * t,
                            r.origin[2] + r.direction[2] * t,
                            r.origin[3] + r.direction[3] * t>>
            IN [hit |-> TRUE, t |-> t, position |-> hitPos,
                normal |-> FaceNormal(hitPos, voxel.position),
                material |-> voxel.materialIdx]
       ELSE NoHit

\* m * vec4f(v, 0.0); of a matrix with a denominator, Den(m) times that
\* vector: every use is the argument of normalize(), where a positive factor
\* cancels.
TransformDir(m, c) ==
    <<M(m, 0) * c[1] + M(m, 4) * c[2] + M(m, 8) * c[3],
      M(m, 1) * c[1] + M(m, 5) * c[2] + M(m, 9) * c[3],
      M(m, 2) * c[1] + M(m, 6) * c[2] + M(m, 10) * c[3]>>

\* normalize() of a vector along one axis: each component over the length.
Normalize(v) ==
    LET len == Abs(v[1]) + Abs(v[2]) + Abs(v[3])
    IN IF len = 0 THEN v ELSE <<v[1] \div len, v[2] \div len, v[3] \div len>>

\* A read of a runtime-sized storage array: in bounds, the element; out of
\* bounds, any element of the array or the zero value.
ReadArr(arr, idx, zero) ==
    IF idx \in DOMAIN arr THEN {arr[idx]} ELSE {arr[j] : j \in DOMAIN arr} \cup {zero}

ZeroBlasNode == [aabbMin |-> <<0, 0, 0>>, flags |-> 0, aabbMax |-> <<0, 0, 0>>,
                 firstChildOrVoxelIndex |-> 0]
ZeroVoxel == [position |-> <<0, 0, 0>>, materialIdx |-> 0, size |-> 0,
              occupancyMask |-> 0, lodLevel |-> 0]
ZeroMatrix == <<0, 0, 0, 0,  0, 0, 0, 0,  0, 0, 0, 0,  0, 0, 0, 0>>
ZeroInstance == [transform |-> ZeroMatrix, transformInverse |-> ZeroMatrix,
                 blasOffset |-> 0, materialIdx |-> 0]
ZeroTlasNode == [aabbMin |-> <<0, 0, 0>>, left |-> 0, aabbMax |-> <<0, 0, 0>>,
                 right |-> 0, blasInstanceIndex |-> 0]

\* ---------------------------------------------------------------- traversal
\* pc: "idle" no ray in flight; "tlas" in the loop of traceTLAS; "blas" in the
\* loop of traceBLAS (called from a TLAS leaf); "done" traceTLAS returned;
\* "tlasOverflow" / "blasOverflow" a push of that loop found stackPtr =
\* MAX_STACK_SIZE (the write is outside the stack array, what follows is not
\* defined); "nan" a NaN reached a comparison.

\* The test under which a hit record replaces the current one:
\* voxelHit.hit && voxelHit.t < hitInfo.t (localHit.hit && localHit.t < hitInfo.t).
Nearer_AnyHit(candidate, current) == candidate.hit
Nearer(candidate, current) == candidate.hit /\ candidate.t < current.t

\* traceTLAS entry: stack[0] = 0, stackPtr = 1.
StartTrace(r) ==
    /\ pc \in {"idle", "done"}
    /\ buffers # NoBuffers
    /\ ray' = r
    /\ tlasStack' = <<0>>
    /\ hitInfo' = NoHit
    /\ pc' = "tlas"
    /\ UNCHANGED sceneVars
    /\ UNCHANGED <<buffers, blasStack, localHit, curInstance>>

\* The children an internal TLAS node pushes, in push order.
TlasChildren(node) ==
    (IF node.left # 0 THEN <<node.left>> ELSE <<>>)
    \o (IF node.right # 0 THEN <<node.right>> ELSE <<>>)

\* One iteration of the while loop of traceTLAS.
TraceTLASStep ==
    /\ pc = "tlas"
    /\ tlasStack # <<>>
    /\ LET currentNodeIdx == tlasStack[Len(tlasStack)]
           popped == SubSeq(tlasStack, 1, Len(tlasStack) - 1)
       IN \E currentNode \in ReadArr(buffers.tlasNodes, currentNodeIdx, ZeroTlasNode) :
          LET t == intersectAABB(ray, currentNode.aabbMin, currentNode.aabbMax) IN
          IF IsNaNCase(ray, currentNode.aabbMin, currentNode.aabbMax)
          THEN /\ pc' = "nan"
               /\ tlasStack' = popped
               /\ UNCHANGED <<hitInfo, blasStack, localHit, curInstance>>
          ELSE IF t < 0 \/ t > hitInfo.t
          THEN /\ tlasStack' = popped
               /\ UNCHANGED <<pc, hitInfo, blasStack, localHit, curInstance>>
          ELSE IF currentNode.left = 0 /\ currentNode.right = 0
          THEN IF currentNode.blasInstanceIndex # Uint32Max
               THEN \E instance \in ReadArr(buffers.blasInstances,
                                            currentNode.blasInstanceIndex, ZeroInstance) :
                       /\ curInstance' = instance
                       /\ blasStack' = <<instance.blasOffset>>
                       /\ localHit' = NoHit
                       /\ pc' = "blas"
                       /\ tlasStack' = popped
                       /\ UNCHANGED hitInfo
               ELSE /\ tlasStack' = popped
                    /\ UNCHANGED <<pc, hitInfo, blasStack, localHit, curInstance>>
          ELSE IF Len(popped) + Len(TlasChildren(currentNode)) > MAX_STACK_SIZE
          THEN /\ pc' = "tlasOverflow"
               /\ tlasStack' = popped
               /\ UNCHANGED <<hitInfo, blasStack, localHit, curInstance>>
          ELSE /\ tlasStack' = popped \o TlasChildren(currentNode)
               /\ UNCHANGED <<pc, hitInfo, blasStack, localHit, curInstance>>
    /\ UNCHANGED sceneVars
    /\ UNCHANGED <<buffers, ray>>

\* traceTLAS leaves its loop with an empty stack and returns hitInfo.
TraceTLASReturn ==
    /\ pc = "tlas"
    /\ tlasStack = <<>>
    /\ pc' = "done"
    /\ UNCHANGED sceneVars
    /\ UNCHANGED <<buffers, ray, tlasStack, hitInfo, blasStack, localHit, curInstance>>

\* The ray of traceBLAS in the object space of the instance.
ObjectRay(r, instance) ==
    [origin |-> TransformPoint(instance.transformInverse, r.origin),
     direction |-> Normalize(TransformDir(instance.transformInverse, r.direction))]

\* The children an internal BLAS node pushes: firstChildIdx + i, i < childCount.
BlasChildren(node) ==
    [i \in 1 .. getChildCount(node.flags) |-> node.firstChildOrVoxelIndex + (i - 1)]

\* One iteration of the while loop of traceBLAS.
TraceBLASStep ==
    /\ pc = "blas"
    /\ blasStack # <<>>
    /\ LET currentNodeIdx == blasStack[Len(blasStack)]
           popped == SubSeq(blasStack, 1, Len(blasStack) - 1)
           objectRay == ObjectRay(ray, curInstance)
       IN \E currentNode \in ReadArr(buffers.blasNodes, currentNodeIdx, ZeroBlasNode) :
          LET t == intersectAABB(objectRay, currentNode.aabbMin, currentNode.aabbMax) IN
          IF IsNaNCase(objectRay, currentNode.aabbMin, currentNode.aabbMax)
          THEN /\ pc' = "nan"
               /\ blasStack' = popped
               /\ UNCHANGED localHit
          ELSE IF t < 0 \/ t > localHit.t
          THEN /\ blasStack' = popped
               /\ UNCHANGED <<pc, localHit>>
          ELSE IF isLeafNode(currentNode.flags)
          THEN \E voxel \in ReadArr(buffers.voxels, currentNode.firstChildOrVoxelIndex,
                                    ZeroVoxel) :
                  LET localVoxel == IF curInstance.materialIdx # Uint32Max
                                    THEN [voxel EXCEPT !.materialIdx = curInstance.materialIdx]
                                    ELSE voxel
                      voxelHit == intersectVoxel(objectRay, localVoxel)
                  IN /\ IF Nearer(voxelHit, localHit)
                        THEN localHit' =
                                [voxelHit EXCEPT
                                    !.position = TransformPoint(curInstance.transform,
                                                                voxelHit.position),
                                    !.normal = Normalize(TransformDir(curInstance.transform,
                                                                      voxelHit.normal))]
                        ELSE UNCHANGED localHit
                     /\ blasStack' = popped
                     /\ UNCHANGED pc
          ELSE IF Len(popped) + getChildCount(currentNode.flags) > MAX_STACK_SIZE
          THEN /\ pc' = "blasOverflow"
               /\ blasStack' = popped
               /\ UNCHANGED localHit
          ELSE /\ blasStack' = popped \o BlasChildren(currentNode)
               /\ UNCHANGED <<pc, localHit>>
    /\ UNCHANGED sceneVars
    /\ UNCHANGED <<buffers, ray, tlasStack, hitInfo, curInstance>>

\* traceBLAS returns; traceTLAS keeps the local hit when it is nearer.
TraceBLASReturn ==
    /\ pc = "blas"
    /\ blasStack = <<>>
    /\ hitInfo' = IF Nearer(localHit, hitInfo) THEN localHit ELSE hitInfo
    /\ pc' = "tlas"
    /\ UNCHANGED sceneVars
    /\ UNCHANGED <<buffers, ray, tlasStack, blasStack, localHit, curInstance>>

\* -------------------------------------------------------------------- inputs
\* A voxel list from a sequence of [position, size, lodLevel, materialIdx]:
\* each element is a fresh Voxel object (ref = its place in the list).
MkVoxels(descr) ==
    [i \in 0 .. (Len(descr) - 1) |->
        Voxel(i, descr[i + 1].position, descr[i + 1].size, descr[i + 1].materialIdx,
              descr[i + 1].lodLevel)]

VoxelAt(position, size, lodLevel) ==
    [position |-> position, size |-> size, lodLevel |-> lodLevel, materialIdx |-> 1]

\* One voxel at the origin.
OneVoxel == MkVoxels(<<VoxelAt(<<0, 0, 0>>, 4, 1)>>)
\* Two voxels side by side on the x axis.
PairVoxels == MkVoxels(<<VoxelAt(<<-6, 0, 0>>, 4, 1), VoxelAt(<<6, 0, 0>>, 4, 1)>>)
\* Two voxels that share the low octant of the root and one in the high octant.
NestedVoxels ==
    MkVoxels(<<VoxelAt(<<-7, -7, -7>>, 2, 2), VoxelAt(<<-1, -1, -1>>, 2, 2),
               VoxelAt(<<7, 7, 7>>, 2, 2)>>)
\* One voxel far from two neighbours that stay together for five levels.
ChainVoxels ==
    MkVoxels(<<VoxelAt(<<-127, -127, -127>>, 2, 5), VoxelAt(<<125, 125, 125>>, 2, 5),
               VoxelAt(<<127, 127, 127>>, 2, 5)>>)

\* Four voxels at LOD 0 (the lists voxelEngine.loadVoxModel builds).
FlatVoxels ==
    MkVoxels(<<VoxelAt(<<0, 0, 0>>, 2, 0), VoxelAt(<<2, 0, 0>>, 2, 0),
               VoxelAt(<<0, 2, 0>>, 2, 0), VoxelAt(<<0, 0, 2>>, 2, 0)>>)

\* Every list of 1 .. MaxVoxels voxels of size 16 on four grid positions with
\* LOD 1 or 3 (positions may repeat: voxels may coincide).
FamilyPositions == {<<-24, -24, -24>>, <<-8, -8, -8>>, <<8, 8, 8>>, <<8, -24, -8>>}
FamilyLods == {1, 3}
FamilyKinds == {VoxelAt(p, 16, l) : p \in FamilyPositions, l \in FamilyLods}
VoxelFamily ==
    UNION {{MkVoxels(d) : d \in [1 .. n -> FamilyKinds]} : n \in 1 .. MaxVoxels}

BlasInputs ==
    VoxelFamily \cup {OneVoxel, PairVoxels, NestedVoxels, ChainVoxels, FlatVoxels}
SceneVoxelLists == {OneVoxel, PairVoxels, NestedVoxels}
BlasIds == {"a", "b"}
SceneOffsets == {<<0, 0, 0>>, <<5, 0, 0>>}
TlasOffsets == {<<0, 0, 0>>, <<0, 0, 2>>, <<0, 0, 10>>, <<-5, 0, 0>>, <<5, 0, 0>>}

\* ------------------------------------------------------------ specifications
NoRay == [origin |-> <<0, 0, 0>>, direction |-> <<0, 0, -1>>]

TraceInit ==
    /\ buffers = NoBuffers
    /\ pc = "idle"
    /\ ray = NoRay
    /\ tlasStack = <<>>
    /\ hitInfo = NoHit
    /\ blasStack = <<>>
    /\ localHit = NoHit
    /\ curInstance = ZeroInstance

\* new VoxelScene()
Init ==
    /\ blasArray = EmptyArr
    /\ blasOffsetMap = <<>>
    /\ totalNodeCount = 0
    /\ blasInstances = EmptyArr
    /\ tlas = NoTLAS
    /\ lastOp = "new"
    /\ returned = NoReturn
    /\ TraceInit

\* The scene operations, in any order.
Next ==
    \/ \E id \in BlasIds, v \in SceneVoxelLists : CreateBLAS(id, v)
    \/ \E id \in BlasIds, d \in SceneOffsets : AddInstance(id, d, 0)
    \/ BuildTLAS

Spec == Init /\ [][Next]_vars

\* One BLAS built from any list of the family.
NextBlas == \E v \in BlasInputs : ArrLen(blasArray) < 1 /\ CreateBLAS("a", v)

SpecBlas == Init /\ [][NextBlas]_vars

\* A scene holding the one-voxel BLAS; instances of it are placed and the TLAS
\* is built over them.
InitTlas ==
    /\ blasArray = ArrPush(EmptyArr, NewBLAS("a", OneVoxel))
    /\ blasOffsetMap = MapSet(<<>>, 0, NewBLAS("a", OneVoxel))
    /\ totalNodeCount = OffsetAdvance(NewBLAS("a", OneVoxel))
    /\ blasInstances = EmptyArr
    /\ tlas = NoTLAS
    /\ lastOp = "createBLAS"
    /\ returned = NoReturn
    /\ TraceInit

NextTlas ==
    \/ \E d \in TlasOffsets : AddInstance("a", d, 0)
    \/ BuildTLAS

SpecTlas == InitTlas /\ [][NextTlas]_vars

\* A scene is built, uploaded, and then traced; it is not changed once it
\* has been uploaded.
TraceVoxelLists == {OneVoxel, PairVoxels}
TraceOffsets == {<<0, 0, 0>>, <<0, 0, 4>>}
TraceRays ==
    {[origin |-> <<-1, 1, 10>>, direction |-> <<0, 0, -1>>],
     [origin |-> <<11, 1, 1>>, direction |-> <<-1, 0, 0>>],
     [origin |-> <<1, 9, 10>>, direction |-> <<0, 0, -1>>]}

NextTrace ==
    \/ /\ buffers = NoBuffers
       /\ \/ \E id \in BlasIds, v \in TraceVoxelLists : CreateBLAS(id, v)
          \/ \E id \in BlasIds, d \in TraceOffsets : AddInstance(id, d, 0)
          \/ BuildTLAS
    \/ UpdateBuffers
    \/ \E r \in TraceRays : StartTrace(r)
    \/ TraceTLASStep
    \/ TraceTLASReturn
    \/ TraceBLASStep
    \/ TraceBLASReturn

SpecTrace == Init /\ [][NextTrace]_vars

\* The scene of one BLAS and instances of it, with its TLAS built.
SceneOf(id, voxels, instances) ==
    /\ blasArray = ArrPush(EmptyArr, NewBLAS(id, voxels))
    /\ blasOffsetMap = MapSet(<<>>, 0, NewBLAS(id, voxels))
    /\ totalNodeCount = OffsetAdvance(NewBLAS(id, voxels))
    /\ blasInstances = instances
    /\ tlas = NewTLAS(instances, MapSet(<<>>, 0, NewBLAS(id, voxels)))
    /\ lastOp = "buildTLAS"
    /\ returned = NoReturn
    /\ TraceInit

IdentityInstance ==
    [transform |-> Translation(<<0, 0, 0>>), transformInverse |-> Translation(<<0, 0, 0>>),
     blasOffset |-> 0, materialIdx |-> 0]

NextTraceOnly ==
    \/ UpdateBuffers
    \/ TraceTLASStep
    \/ TraceTLASReturn
    \/ TraceBLASStep
    \/ TraceBLASReturn

\* An octree DeepLevels levels deep in which every internal node has eight
\* children: at level k the octants 0 .. 6 hold one voxel each and octant 7
\* holds the next level; the last level holds a voxel in octant 7 as well.
\* The root box is [0, DeepExtent]^3 and the octant 7 of level k is
\* [DeepCenter(k), DeepExtent]^3.
DeepLevels == 5
DeepExtent == 2 ^ (DeepLevels + 1)
DeepCenter(k) == DeepExtent - (DeepExtent \div (2 ^ k))
DeepLow(k) == IF k = 1 THEN 2 ELSE DeepCenter(k) - 2
DeepHigh == DeepExtent - 2
DeepPosition(k, b) ==
    <<IF b % 2 = 1 THEN DeepHigh ELSE DeepLow(k),
      IF (b \div 2) % 2 = 1 THEN DeepHigh ELSE DeepLow(k),
      IF (b \div 4) % 2 = 1 THEN DeepHigh ELSE DeepLow(k)>>
DeepVoxels ==
    MkVoxels(Tuple([n \in 1 .. (7 * DeepLevels + 1) |->
                 IF n = 7 * DeepLevels + 1
                 THEN VoxelAt(<<DeepHigh, DeepHigh, DeepHigh>>, 4, DeepLevels)
                 ELSE VoxelAt(DeepPosition(((n - 1) \div 7) + 1, (n - 1) % 7), 4,
                              DeepLevels)]))

\* Rays down the z axis and along the x axis, outside the root box, through
\* the innermost octant 7 and through shallower parts of the tree.
DeepRays ==
    {[origin |-> <<x, y, DeepExtent + 6>>, direction |-> <<0, 0, -1>>] :
        x \in {1, DeepExtent - 1}, y \in {1, DeepExtent - 1, DeepExtent + 1}}
    \cup {[origin |-> <<DeepExtent + 6, 1, 1>>, direction |-> <<-1, 0, 0>>]}

InitDeep == SceneOf("deep", DeepVoxels, ArrPush(EmptyArr, IdentityInstance))
NextDeep == NextTraceOnly \/ \E r \in DeepRays : StartTrace(r)
SpecDeep == InitDeep /\ [][NextDeep]_vars

\* Instances of the one-voxel BLAS, all with the identity transform (identical
\* world boxes): ChainInstances of them, or three.
ChainInstances == 33
ChainRays ==
    {[origin |-> <<1, 1, 10>>, direction |-> <<0, 0, -1>>],
     [origin |-> <<-1, 1, 10>>, direction |-> <<0, 0, -1>>],
     [origin |-> <<1, -1, -10>>, direction |-> <<0, 0, 1>>],
     [origin |-> <<10, 1, 1>>, direction |-> <<-1, 0, 0>>],
     [origin |-> <<5, 1, 10>>, direction |-> <<0, 0, -1>>]}

InitChain ==
    \E n \in {3, ChainInstances} :
        SceneOf("a", OneVoxel, [i \in 0 .. (n - 1) |-> IdentityInstance])
NextChain == NextTraceOnly \/ \E r \in ChainRays : StartTrace(r)
SpecChain == InitChain /\ [][NextChain]_vars

\* Two instances of the two-voxel BLAS, placed at NearOffsets along z, so
\* that a ray along z meets the instances one behind the other and a ray
\* along x meets the two voxels of an instance one behind the other, from
\* either side; the instances differ in material, also where they coincide.
NearOffsets == {<<0, 0, 0>>, <<0, 0, 6>>, <<0, 0, -6>>}
PlacedInstance(d, materialIdx) ==
    [transform |-> Translation(d), transformInverse |-> Translation(Negate(d)),
     blasOffset |-> 0, materialIdx |-> materialIdx]
NearRays ==
    {[origin |-> <<-5, 1, 20>>, direction |-> <<0, 0, -1>>],
     [origin |-> <<-5, 1, -20>>, direction |-> <<0, 0, 1>>],
     [origin |-> <<20, 1, 1>>, direction |-> <<-1, 0, 0>>],
     [origin |-> <<-20, 1, 1>>, direction |-> <<1, 0, 0>>]}
InitNear ==
    \E d1 \in NearOffsets, d2 \in NearOffsets :
        SceneOf("a", PairVoxels,
                ArrPush(ArrPush(EmptyArr, PlacedInstance(d1, 0)), PlacedInstance(d2, 2)))
NextNear == NextTraceOnly \/ \E r \in NearRays : StartTrace(r)
SpecNear == InitNear /\ [][NextNear]_vars

\* ------------------------------------------------------------ sanity checks
\* Every halving the build performed was exact: the boxes whose centre the
\* code computes (internal BLAS nodes, TLAS leaves) have an even min + max.
EvenSum(b) == \A k \in 1 .. 3 : (b.min[k] + b.max[k]) % 2 = 0

HalvingExact ==
    /\ \A b \in DOMAIN blasArray :
          /\ \A i \in DOMAIN blasArray[b].nodes :
                ~blasArray[b].nodes[i].isLeaf => EvenSum(blasArray[b].nodes[i].aabb)
          /\ \A i \in DOMAIN blasArray[b].voxels : blasArray[b].voxels[i].size % 2 = 0
    /\ \A i \in DOMAIN tlas.nodes : tlas.nodes[i].left = 0 => EvenSum(tlas.nodes[i].aabb)

NoNaN == pc # "nan"

\* ==================================================================== claims

\* ---------------------------------------------------------------------- C1
\* C1: after any sequence of createBLAS calls, for every registered BLAS the
\* element of getFlattenedBlasNodes() at the BLAS's recorded offset is that
\* BLAS's root node nodes[0].
C1_OffsetAddressesRoot ==
    \A k \in 1 .. Len(blasOffsetMap) :
        /\ blasOffsetMap[k].offset \in DOMAIN getFlattenedBlasNodes
        /\ getFlattenedBlasNodes[blasOffsetMap[k].offset] = blasOffsetMap[k].blas.nodes[0]

\* ---------------------------------------------------------------------- C2
\* C2: for every internal node p of a built BLAS, the indices
\* p.firstChildOrVoxelIndex + i, i in [0, childCount), are exactly the indices
\* of the child nodes created for p, in creation order.
ContiguousFrom(first, n) == [i \in 1 .. n |-> first + (i - 1)]

C2_ChildrenContiguous ==
    \A b \in DOMAIN blasArray :
        \A p \in DOMAIN blasArray[b].nodes :
            LET node == blasArray[b].nodes[p] IN
            ~node.isLeaf =>
                node.childIndices = ContiguousFrom(node.firstChildOrVoxelIndex, node.childCount)

\* ---------------------------------------------------------------------- C5
\* C5: for every BLAS built from a non-empty voxel list,
\* 1 <= nodeCount <= 2 * voxels.length.
C5_NodeCountWithinCapacity ==
    \A b \in DOMAIN blasArray :
        /\ 1 <= blasArray[b].nodeCount
        /\ blasArray[b].nodeCount <= 2 * ArrLen(blasArray[b].voxels)

\* ---------------------------------------------------------------------- C6
\* C6: for every BLAS built from a non-empty voxel list, every leaf's
\* firstChildOrVoxelIndex lies in [0, voxels.length) and no two leaves hold
\* the same voxel index.
BlasLeaves(blas) == {i \in DOMAIN BlasGetNodes(blas) : blas.nodes[i].isLeaf}

C6_LeafVoxelIndexUnique ==
    \A b \in DOMAIN blasArray :
        LET blas == blasArray[b] IN
        /\ \A i \in BlasLeaves(blas) :
              /\ blas.nodes[i].firstChildOrVoxelIndex >= 0
              /\ blas.nodes[i].firstChildOrVoxelIndex < ArrLen(blas.voxels)
        /\ \A i, j \in BlasLeaves(blas) :
              blas.nodes[i].firstChildOrVoxelIndex = blas.nodes[j].firstChildOrVoxelIndex
                  => i = j

\* A BLAS was built that has at least three leaves, not all on voxel 0.
C6_Witness ==
    \E b \in DOMAIN blasArray :
        /\ Cardinality(BlasLeaves(blasArray[b])) >= 3
        /\ \E i \in BlasLeaves(blasArray[b]) :
              blasArray[b].nodes[i].firstChildOrVoxelIndex > 0

\* ---------------------------------------------------------------------- C3
\* C3: a TLAS built over n > 0 instances whose blasOffset each maps to a known
\* BLAS has getNodes().length = 2n - 1.
AllOffsetsKnown ==
    \A i \in DOMAIN blasInstances : MapHas(blasOffsetMap, blasInstances[i].blasOffset)

C3_TlasNodeCount ==
    (lastOp = "buildTLAS" /\ ArrLen(blasInstances) > 0 /\ AllOffsetsKnown)
        => ArrLen(TlasGetNodes(tlas)) = 2 * ArrLen(blasInstances) - 1

\* ---------------------------------------------------------------------- C4
\* C4: the nodes getNodes() returns for a TLAS built over n > 0 instances
\* contain exactly n leaves (left = 0 and right = 0), and the leaves'
\* blasInstanceIndex values are a permutation of 0 .. n-1.
TlasLeafSet(t) ==
    {i \in DOMAIN TlasGetNodes(t) : t.nodes[i].left = 0 /\ t.nodes[i].right = 0}

C4_OneLeafPerInstance ==
    (lastOp = "buildTLAS" /\ ArrLen(blasInstances) > 0) =>
        /\ Cardinality(TlasLeafSet(tlas)) = ArrLen(blasInstances)
        /\ {tlas.nodes[i].blasInstanceIndex : i \in TlasLeafSet(tlas)} = DOMAIN blasInstances
        /\ \A i, j \in TlasLeafSet(tlas) :
              tlas.nodes[i].blasInstanceIndex = tlas.nodes[j].blasInstanceIndex => i = j

\* ---------------------------------------------------------------------- C7
\* C7: in buildHierarchy, for every list of at least 2 nodes, the SAH cost of
\* the left / right partition recursed into is <= the cost of the split at
\* index floor(n / 2) of the same list sorted along each of the three axes.

\* The lists buildHierarchy is called on, from the call on list downwards.
RECURSIVE HierarchyCalls(_, _)
HierarchyCalls(nodes, list) ==
    IF Len(list) <= 1 THEN {list}
    ELSE {list} \cup HierarchyCalls(nodes, SplitLists(nodes, list).left)
                \cup HierarchyCalls(nodes, SplitLists(nodes, list).right)

PartitionCost(nodes, left, right) ==
    surfaceArea(UnionAABB(nodes, left, 1, Len(left))) * Len(left)
    + surfaceArea(UnionAABB(nodes, right, 1, Len(right))) * Len(right)

MedianCost(nodes, list, axis) ==
    SplitCost(nodes, SortByAxis(nodes, list, axis), Len(list) \div 2)

\* The leaf list buildTree hands to buildHierarchy: the leaves, in creation
\* order, sit at indices 1 .. number of leaves.
TlasLeafList(t) ==
    LET n == Cardinality({i \in DOMAIN t.nodes : i >= 1 /\ t.nodes[i].left = 0})
    IN [k \in 1 .. n |-> k]

C7_SplitNoWorseThanMedian ==
    lastOp = "buildTLAS" =>
        \A list \in HierarchyCalls(tlas.nodes, TlasLeafList(tlas)) :
            Len(list) >= 2 =>
                LET parts == SplitLists(tlas.nodes, list) IN
                \A axis \in 0 .. 2 :
                    PartitionCost(tlas.nodes, parts.left, parts.right)
                        <= MedianCost(tlas.nodes, list, axis)

\* ---------------------------------------------------------------------- C8
\* C8: for every BLAS the builder can produce and every ray, traceBLAS never
\* holds more than MAX_STACK_SIZE entries on its stack: no push happens with
\* stackPtr >= MAX_STACK_SIZE.
C8_BlasStackWithinCapacity ==
    pc # "blasOverflow" /\ Len(blasStack) <= MAX_STACK_SIZE

\* ---------------------------------------------------------------------- C9
\* C9: for every TLAS the SAH builder can produce and every ray, traceTLAS
\* never holds more than MAX_STACK_SIZE entries on its stack.
C9_TlasStackWithinCapacity ==
    pc # "tlasOverflow" /\ Len(tlasStack) <= MAX_STACK_SIZE

\* --------------------------------------------------------------------- C10
\* C10: traceTLAS returns hit = true only if the ray intersects, at positive
\* distance, some voxel of the BLAS of some instance of the scene, as placed by
\* that instance's transform.

\* An axis-aligned ray meets the closed box [bmin, bmax] at a positive distance.
RayMeetsBox(r, bmin, bmax) ==
    \A k \in 1 .. 3 :
        IF r.direction[k] = 0 THEN bmin[k] <= r.origin[k] /\ r.origin[k] <= bmax[k]
        ELSE IF r.direction[k] > 0 THEN r.origin[k] < bmax[k]
        ELSE bmin[k] < r.origin[k]

RayMeetsPlacedVoxel(r, instance, voxel) ==
    RayMeetsBox(r, TransformPoint(instance.transform, getMin(voxel)),
                   TransformPoint(instance.transform, getMax(voxel)))

RayMeetsScene(r) ==
    \E i \in DOMAIN blasInstances :
        /\ MapHas(blasOffsetMap, blasInstances[i].blasOffset)
        /\ LET blas == MapGet(blasOffsetMap, blasInstances[i].blasOffset)
           IN \E v \in DOMAIN blas.voxels :
                 RayMeetsPlacedVoxel(r, blasInstances[i], blas.voxels[v])

C10_HitOnlyOnSceneVoxel ==
    (pc = "done" /\ hitInfo.hit) => RayMeetsScene(ray)

\* --------------------------------------------------------------------- C11
\* C11: during one traceTLAS call the hit record starts at hit = false,
\* t = MAX_DISTANCE, and every later assignment to it strictly decreases t;
\* the same holds for the hit record of each nested traceBLAS call.
C11_HitDistanceDecreases ==
    [][/\ (pc \in {"idle", "done"} /\ pc' = "tlas")
            => (~hitInfo'.hit /\ hitInfo'.t = MAX_DISTANCE)
       /\ (pc = "tlas" /\ pc' = "blas")
            => (~localHit'.hit /\ localHit'.t = MAX_DISTANCE)
       /\ (pc \in {"tlas", "blas"} /\ hitInfo' # hitInfo)
            => (hitInfo'.hit /\ hitInfo'.t < hitInfo.t)
       /\ (pc = "blas" /\ localHit' # localHit)
            => (localHit'.hit /\ localHit'.t < localHit.t)]_vars

\* traceBLAS is about to return a hit nearer than the hit traceTLAS holds.
C11_Witness ==
    /\ pc = "blas" /\ blasStack = <<>>
    /\ hitInfo.hit /\ localHit.hit /\ localHit.t < hitInfo.t

\* ------------------------------------------------- one voxel, one instance
\* Scenes of one single-voxel BLAS and one instance of it with the identity
\* transform; the rays run along an axis towards a face of the voxel, from
\* FaceDistances in front of it, through a point strictly inside the face.
SingleSizes == {2, 4}
SingleCenters == {<<0, 0, 0>>, <<4, -2, 6>>}
FaceDistances == {1, 9, MAX_DISTANCE - 1, MAX_DISTANCE, MAX_DISTANCE + 2}
Axes == {<<1, 0, 0>>, <<-1, 0, 0>>, <<0, 1, 0>>, <<0, -1, 0>>, <<0, 0, 1>>, <<0, 0, -1>>}

\* The ray towards the face with outward normal n of the voxel, starting d
\* in front of the face, displaced by off inside the face.
RayAtFace(voxel, n, d, off) ==
    [origin |-> [k \in 1 .. 3 |-> IF n[k] # 0
                                  THEN voxel.position[k] + n[k] * (Half(voxel.size) + d)
                                  ELSE voxel.position[k] + off[k]],
     direction |-> <<-n[1], -n[2], -n[3]>>]

SingleOffsets == {<<0, 0, 0>>, <<1, -1, 1>>}
SingleRays(voxel) ==
    {RayAtFace(voxel, n, d, off) :
        n \in Axes, d \in FaceDistances,
        off \in {o \in SingleOffsets : \A k \in 1 .. 3 : Abs(o[k]) < Half(voxel.size)}}

InitSingle ==
    \E c \in SingleCenters, size \in SingleSizes :
        SceneOf("a", MkVoxels(<<VoxelAt(c, size, 1)>>), ArrPush(EmptyArr, IdentityInstance))
NextSingle == NextTraceOnly \/ \E r \in SingleRays(blasArray[0].voxels[0]) : StartTrace(r)
SpecSingle == InitSingle /\ [][NextSingle]_vars

\* The axis of the ray, the face it enters through and how far away that is.
RayAxis(r) == CHOOSE k \in 1 .. 3 : r.direction[k] # 0
EntryDistance(r, voxel) ==
    Abs(r.origin[RayAxis(r)] - voxel.position[RayAxis(r)]) - Half(voxel.size)
OutwardNormal(r) == <<-r.direction[1], -r.direction[2], -r.direction[3]>>
HitAtEntryFace(r, voxel) ==
    /\ hitInfo.hit
    /\ hitInfo.t = EntryDistance(r, voxel)
    /\ hitInfo.normal = OutwardNormal(r)

WithEntry(k, v) == [n \in 1 .. 16 |-> IF n = k + 1 THEN v ELSE identity[n]]

\* Integer matrices of determinant 1 or -1: the identity, translations,
\* shears, axis permutations and a reflection.
UnitDetMatrices ==
    {identity, Translation(<<3, -2, 5>>), WithEntry(4, 1), WithEntry(9, 1),
     <<0, 1, 0, 0,  0, 0, 1, 0,  1, 0, 0, 0,  0, 0, 0, 1>>,
     <<0, 1, 0, 0,  1, 0, 0, 0,  0, 0, 1, 0,  0, 0, 0, 1>>}
\* Matrices of determinant 0.
SingularMatrices ==
    {SingularResult_ZeroFilled, WithEntry(0, 0),
     <<1, 1, 0, 0,  1, 1, 0, 0,  0, 0, 1, 0,  2, 0, 0, 1>>}
Mat4Inputs == UnitDetMatrices \cup SingularMatrices

NextMat4 ==
    \/ CreateBLAS("a", OneVoxel)
    \/ \E m \in Mat4Inputs : AddTransformedInstance("a", m)
SpecMat4 == Init /\ [][NextMat4]_vars

\* The inputs are in the range where the integer division of inverse is exact.
Mat4InputsExact == \A m \in Mat4Inputs : Determinant(m) \in {-1, 0, 1}

\* C13: for every matrix m that Mat4.inverse does not treat as singular, m
\* times Mat4.inverse(m) is the identity, so an instance whose
\* transformInverse is Mat4.inverse(transform) has mutually inverse matrices.
C13_InverseIsInverse ==
    \A i \in DOMAIN blasInstances :
        ~Singular(Determinant(blasInstances[i].transform))
        => multiply(blasInstances[i].transform, blasInstances[i].transformInverse) = identity

\* C17: Mat4.inverse(m) of a singular m (|det| < 1e-6) returns exactly the
\* identity, without throwing and without modifying m: the instance made from
\* m holds m as transform and the identity as transformInverse.
C17_SingularInverseIsIdentity ==
    [][\A m \in Mat4Inputs :
          (AddTransformedInstance("a", m) /\ Singular(Determinant(m)))
          => LET made == blasInstances'[ArrLen(blasInstances)]
             IN made.transform = m /\ made.transformInverse = identity]_vars

C17_Witness ==
    \E i \in DOMAIN blasInstances :
        /\ blasInstances[i].transform = <<1, 1, 0, 0,  1, 1, 0, 0,  0, 0, 1, 0,  2, 0, 0, 1>>
        /\ Determinant(blasInstances[i].transform) = 0
        /\ blasInstances[i].transformInverse = identity

\* ---------------------------------------------------------------------- C14
\* The blasInstanceIndex of the leaves met walking left, then right, from node
\* idx; a link outside [1, nodeCount) yields INVALID_INDEX, no instance's index.
RECURSIVE LeavesFrom(_, _)
LeavesFrom(t, idx) ==
    IF t.nodes[idx].left = 0 /\ t.nodes[idx].right = 0
    THEN <<t.nodes[idx].blasInstanceIndex>>
    ELSE IF \/ t.nodes[idx].left \notin 1 .. (t.nodeCount - 1)
            \/ t.nodes[idx].right \notin 1 .. (t.nodeCount - 1)
         THEN <<INVALID_INDEX>>
         ELSE LeavesFrom(t, t.nodes[idx].left) \o LeavesFrom(t, t.nodes[idx].right)

\* C14: after TLAS construction over n >= 1 instances, slot 0 holds the root:
\* following left / right from index 0 reaches the leaf of every instance
\* exactly once, every link followed lies in [1, nodeCount), and the box of
\* node 0 contains the world box of every instance.
C14_RootAtSlotZero ==
    (lastOp = "buildTLAS" /\ ArrLen(blasInstances) >= 1) =>
        /\ Len(LeavesFrom(tlas, 0)) = ArrLen(blasInstances)
        /\ {LeavesFrom(tlas, 0)[k] : k \in 1 .. Len(LeavesFrom(tlas, 0))} = DOMAIN blasInstances
        /\ \A i \in DOMAIN blasInstances :
              containsAABB(tlas.nodes[0].aabb, TlasLeaf(blasInstances, blasOffsetMap, i).aabb)

\* Three instances at different places: the root is an internal node whose
\* left subtree is a leaf or a pair, and its box is larger than any leaf's.
C14_Witness ==
    /\ lastOp = "buildTLAS"
    /\ ArrLen(blasInstances) = 3
    /\ tlas.nodes[0].left # 0
    /\ tlas.nodes[0].blasInstanceIndex = INVALID_INDEX
    /\ \A i \in DOMAIN blasInstances :
          tlas.nodes[0].aabb # TlasLeaf(blasInstances, blasOffsetMap, i).aabb

\* ---------------------------------------------------------------------- C15
\* The sum of nodes.length over the first k BLAS objects created.
RECURSIVE AllocatedBefore(_)
AllocatedBefore(k) ==
    IF k = 0 THEN 0 ELSE AllocatedBefore(k - 1) + blasArray[k - 1].nodesLength

\* C15: after any sequence of createBLAS calls, the offset of the k-th
\* created BLAS is the sum of nodes.length (the allocated length, not
\* nodeCount) of the k-1 BLAS objects created before it; the first has 0.
C15_OffsetIsAllocatedSum ==
    /\ Len(blasOffsetMap) = ArrLen(blasArray)
    /\ \A k \in 1 .. Len(blasOffsetMap) :
          /\ blasOffsetMap[k].blas = blasArray[k - 1]
          /\ blasOffsetMap[k].offset = AllocatedBefore(k - 1)

\* A second BLAS behind one whose allocated length differs from its nodeCount.
C15_Witness ==
    /\ ArrLen(blasArray) = 2
    /\ blasOffsetMap[1].offset = 0
    /\ blasOffsetMap[2].offset = blasArray[0].nodesLength
    /\ blasArray[0].nodesLength # blasArray[0].nodeCount

\* ------------------------------------------------------- offsets of a scene
\* createBLAS calls with six voxel lists (the empty one among them) under two
\* ids, and getBlasOffset calls with those ids and one that is never registered.
OffsetVoxelLists == {EmptyArr, OneVoxel, PairVoxels, NestedVoxels, ChainVoxels, FlatVoxels}
QueryIds == BlasIds \cup {"missing"}
NextOffsets ==
    \/ \E id \in BlasIds, v \in OffsetVoxelLists : CreateBLAS(id, v)
    \/ \E id \in QueryIds : GetBlasOffset(id)
SpecOffsets == Init /\ [][NextOffsets]_vars

Registered(id) == \E k \in 1 .. Len(blasOffsetMap) : blasOffsetMap[k].blas.id = id

\* C16: getBlasOffset(id) for an id that matches no registered BLAS returns 0
\* (it does not throw) and leaves the scene state unchanged.
C16_UnknownIdReturnsZero ==
    [][\A id \in QueryIds :
          (GetBlasOffset(id) /\ ~Registered(id))
          => /\ returned' = [call |-> "getBlasOffset", arg |-> id, value |-> 0]
             /\ UNCHANGED <<blasArray, blasOffsetMap, totalNodeCount, blasInstances, tlas>>]_vars

\* A scene with a BLAS registered, asked for an id it does not have.
C16_Witness ==
    /\ Len(blasOffsetMap) >= 1
    /\ returned.call = "getBlasOffset"
    /\ ~Registered(returned.arg)
    /\ returned.value = 0

\* ---------------------------------------------------------------------- C18
\* C18: VoxelScene.createBLAS (the BLAS constructor) completes without
\* throwing for every voxel list, the empty list included.
C18_CreateBlasNeverThrows == lastOp # "createBLAS threw"

BoxCoords == {-2, 0, 3}
BoxCorners == BoxCoords \X BoxCoords \X BoxCoords
Boxes ==
    {[min |-> p[1], max |-> p[2]] :
        p \in {q \in BoxCorners \X BoxCorners : \A k \in 1 .. 3 : q[1][k] <= q[2][k]}}

ExpandByAABB(b, other) ==
    /\ returned' = [call |-> "expandByAABB", arg |-> [b |-> b, other |-> other],
                     value |-> expandByAABB(b, other)]
    /\ UNCHANGED <<blasArray, blasOffsetMap, totalNodeCount, blasInstances, tlas, lastOp>>
    /\ UNCHANGED traceVars

NextAabb ==
    \/ \E b \in Boxes : ExpandByAABB(NewAABB, b)
    \/ \E b \in Boxes : ExpandByAABB(b, NewAABB)
    \/ \E b \in Boxes : ExpandByAABB(b, [min |-> <<-2, 0, 0>>, max |-> <<0, 3, 0>>])
    \/ ExpandByAABB(NewAABB, NewAABB)
SpecAabb == Init /\ [][NextAabb]_vars

\* C20: the empty AABB is neutral for expansion on both sides: expanding an
\* empty box by b yields exactly b, and b.expandByAABB(empty) leaves b
\* unchanged.
C20_EmptyBoxNeutral ==
    returned.call = "expandByAABB" =>
        /\ returned.arg.b = NewAABB => returned.value = returned.arg.other
        /\ returned.arg.other = NewAABB => returned.value = returned.arg.b

\* ------------------------------------------------------- the flags word
\* Packs the flags of a node whose fields are drawn from the ranges the
\* buffer layout gives them; returned keeps the node and the packed word.
FlagChildCounts == 0 .. 8
FlagBytes == {0, 1, 85, 127, 128, 170, 255}
FlagNodes ==
    [isLeaf : BOOLEAN, childCount : FlagChildCounts,
     lodLevel : FlagBytes, occupancyMask : FlagBytes]

PackNodeFlags(node) ==
    /\ returned' = [call |-> "packFlags", arg |-> node, value |-> PackFlags(node)]
    /\ UNCHANGED <<blasArray, blasOffsetMap, totalNodeCount, blasInstances, tlas, lastOp>>
    /\ UNCHANGED traceVars

NextFlags == \E node \in FlagNodes : PackNodeFlags(node)
SpecFlags == Init /\ [][NextFlags]_vars

\* C21: the packed flags word gives back isLeaf, childCount, lodLevel and
\* occupancyMask through the shader helpers, and no field overlaps another
\* (the word is the sum of the four fields at their bit positions).
C21_FlagsRoundTrip ==
    returned.call = "packFlags" =>
        /\ isLeafNode(returned.value) = returned.arg.isLeaf
        /\ getChildCount(returned.value) = returned.arg.childCount
        /\ getLodLevel(returned.value) = returned.arg.lodLevel
        /\ getOccupancyMask(returned.value) = returned.arg.occupancyMask
        /\ returned.value = (IF returned.arg.isLeaf THEN 1 ELSE 0)
                            + 2 * returned.arg.childCount
                            + 256 * returned.arg.lodLevel
                            + 65536 * returned.arg.occupancyMask

\* A leaf with eight children counted, the highest LOD and a full mask.
C21_Witness ==
    /\ returned.call = "packFlags"
    /\ returned.arg = [isLeaf |-> TRUE, childCount |-> 8,
                       lodLevel |-> 255, occupancyMask |-> 255]
    /\ getLodLevel(returned.value) = 255
    /\ getChildCount(returned.value) = 8

\* ------------------------------------------- translated single-voxel instances
\* Scenes of one single-voxel BLAS (the voxel [-2, 2]^3) and two instances of
\* it, each translated by one of BruteOffsets; the rays run along an axis and
\* start outside every voxel, some between two placed voxels.
BruteOffsets == {<<0, 0, 0>>, <<0, 0, 12>>, <<12, 0, 0>>}
BruteRays ==
    {[origin |-> <<1, 1, 6>>, direction |-> <<0, 0, 1>>],
     [origin |-> <<1, 1, 6>>, direction |-> <<0, 0, -1>>],
     [origin |-> <<1, 1, 20>>, direction |-> <<0, 0, -1>>],
     [origin |-> <<6, 1, 1>>, direction |-> <<1, 0, 0>>],
     [origin |-> <<-9, 1, 1>>, direction |-> <<1, 0, 0>>],
     [origin |-> <<1, 9, 1>>, direction |-> <<0, -1, 0>>]}
InitBrute ==
    \E d1 \in BruteOffsets, d2 \in BruteOffsets :
        SceneOf("a", OneVoxel,
                ArrPush(ArrPush(EmptyArr, PlacedInstance(d1, 0)), PlacedInstance(d2, 0)))
NextBrute == NextTraceOnly \/ \E r \in BruteRays : StartTrace(r)
SpecBrute == InitBrute /\ [][NextBrute]_vars

\* The brute-force test of an axis-parallel ray against the voxel of every
\* instance: the boxes the ray meets, and the distance to the face it enters.
PlacedMin(instance, voxel) == TransformPoint(instance.transform, getMin(voxel))
PlacedMax(instance, voxel) == TransformPoint(instance.transform, getMax(voxel))
OriginInBox(r, bmin, bmax) ==
    \A k \in 1 .. 3 : bmin[k] <= r.origin[k] /\ r.origin[k] <= bmax[k]
BoxDistance(r, bmin, bmax) ==
    IF r.direction[RayAxis(r)] > 0
    THEN bmin[RayAxis(r)] - r.origin[RayAxis(r)]
    ELSE r.origin[RayAxis(r)] - bmax[RayAxis(r)]
PlacedBoxes ==
    {[min |-> PlacedMin(blasInstances[i], blasArray[0].voxels[0]),
      max |-> PlacedMax(blasInstances[i], blasArray[0].voxels[0])] :
        i \in DOMAIN blasInstances}
BruteDistances(r) ==
    {BoxDistance(r, b.min, b.max) :
        b \in {c \in PlacedBoxes : RayMeetsBox(r, c.min, c.max)
                                   /\ BoxDistance(r, c.min, c.max) > 0}}
OriginOutsideVoxels(r) == \A b \in PlacedBoxes : ~OriginInBox(r, b.min, b.max)

\* C22: for instances of one single-voxel BLAS with translations only and a
\* ray whose origin is in no voxel, traceTLAS reports a hit exactly when the
\* ray meets some voxel at a positive distance, and t is the least such
\* distance.
C22_TraceAgreesWithBruteForce ==
    (pc = "done" /\ OriginOutsideVoxels(ray)) =>
        /\ hitInfo.hit <=> BruteDistances(ray) # {}
        /\ hitInfo.hit => hitInfo.t = SetMin(BruteDistances(ray))

\* --------------------------------------------------------------------- C23
\* The voxel indices held by the leaves below node idx of a BLAS, following
\* the links traceBLAS follows: the children of an internal node are the
\* nodes firstChildOrVoxelIndex + i, i < childCount (the links only lead to
\* higher indices).
RECURSIVE SubtreeVoxels(_, _)
SubtreeVoxels(blas, idx) ==
    IF idx \notin DOMAIN BlasGetNodes(blas) THEN {}
    ELSE IF blas.nodes[idx].isLeaf THEN {blas.nodes[idx].firstChildOrVoxelIndex}
    ELSE UNION {SubtreeVoxels(blas, blas.nodes[idx].firstChildOrVoxelIndex + i) :
                   i \in 0 .. (blas.nodes[idx].childCount - 1)}

VoxelBounds(v) == [min |-> getMin(v), max |-> getMax(v)]

\* C23: after the construction of a BLAS the AABB of every node contains the
\* full bounds of every voxel held by a leaf of the node's subtree.
C23_NodeBoxContainsVoxels ==
    \A b \in DOMAIN blasArray :
        \A i \in DOMAIN BlasGetNodes(blasArray[b]) :
            \A v \in SubtreeVoxels(blasArray[b], i) \cap DOMAIN blasArray[b].voxels :
                containsAABB(blasArray[b].nodes[i].aabb, VoxelBounds(blasArray[b].voxels[v]))

\* --------------------------------------------------------------------- C24
\* C24: after the construction of a BLAS from a non-empty voxel list every
\* voxel index in [0, voxels.length) is held by exactly one leaf node.
C24_EveryVoxelInOneLeaf ==
    \A b \in DOMAIN blasArray :
        \A v \in DOMAIN blasArray[b].voxels :
            Cardinality({i \in BlasLeaves(blasArray[b]) :
                            blasArray[b].nodes[i].firstChildOrVoxelIndex = v}) = 1

\* --------------------------------------------------------------------- C25
\* The BLAS an instance refers to is the one registered at its blasOffset;
\* OwnBlas is its place in blasArray (the map is filled in creation order).
\* In getFlattenedBlasNodes() the nodes of blasArray[k] start behind the
\* getNodes() of the earlier BLASes, in getFlattenedVoxels() its voxels start
\* behind the earlier voxel lists.
OwnBlas(instance) ==
    (CHOOSE k \in 1 .. Len(blasOffsetMap) : blasOffsetMap[k].offset = instance.blasOffset) - 1
RECURSIVE FlatNodeStart(_)
FlatNodeStart(k) == IF k = 0 THEN 0 ELSE FlatNodeStart(k - 1) + blasArray[k - 1].nodeCount
RECURSIVE FlatVoxelStart(_)
FlatVoxelStart(k) ==
    IF k = 0 THEN 0 ELSE FlatVoxelStart(k - 1) + ArrLen(blasArray[k - 1].voxels)
OwnNodes(k) == FlatNodeStart(k) .. (FlatNodeStart(k + 1) - 1)
OwnVoxels(k) == FlatVoxelStart(k) .. (FlatVoxelStart(k + 1) - 1)

\* The voxel index the next iteration of traceBLAS reads, if it reads one:
\* the node on top of the stack passes the box test and is a leaf.
VoxelReads ==
    IF pc = "blas" /\ blasStack # <<>> /\ blasStack[Len(blasStack)] \in DOMAIN buffers.blasNodes
    THEN LET Read(currentNode, t) ==
                 IF ~(t < 0 \/ t > localHit.t) /\ isLeafNode(currentNode.flags)
                 THEN {currentNode.firstChildOrVoxelIndex} ELSE {}
             Test(objectRay, currentNode) ==
                 Read(currentNode,
                      intersectAABB(objectRay, currentNode.aabbMin, currentNode.aabbMax))
         IN Test(ObjectRay(ray, curInstance), buffers.blasNodes[blasStack[Len(blasStack)]])
    ELSE {}

\* C25: in a scene of two or more BLAS objects every node index traceBLAS
\* takes from its stack and every voxel index it reads at a leaf lies in the
\* part of the flattened arrays that holds the instance's own BLAS.
C25_TraceStaysInOwnBlas ==
    (pc = "blas" /\ ArrLen(blasArray) >= 2 /\ MapHas(blasOffsetMap, curInstance.blasOffset)) =>
        /\ \A n \in 1 .. Len(blasStack) : blasStack[n] \in OwnNodes(OwnBlas(curInstance))
        /\ VoxelReads \subseteq OwnVoxels(OwnBlas(curInstance))

\* --------------------------------------------------------------------- C26
\* The order of the list at the time findBestSplit evaluates the costs of an
\* axis: axis 0 sorts the caller's list, each later axis sorts the list the
\* previous axis left behind (tlas.ts:145-151).
SearchOrder(nodes, list, axis) ==
    IF axis = 0 THEN SortByAxis(nodes, list, 0)
    ELSE IF axis = 1 THEN SortByAxis(nodes, SortByAxis(nodes, list, 0), 1)
    ELSE SortByAxis(nodes, SortByAxis(nodes, SortByAxis(nodes, list, 0), 1), 2)

Members(list) == {list[k] : k \in 1 .. Len(list)}

SlicesAsEvaluated(nodes, list) ==
    LET Compare(split, parts) ==
            split.axis # -1 =>
                {Members(parts.left), Members(parts.right)}
                    = {Members(SubSeq(SearchOrder(nodes, list, split.axis),
                                      1, split.splitIndex)),
                       Members(SubSeq(SearchOrder(nodes, list, split.axis),
                                      split.splitIndex + 1, Len(list)))}
    IN Compare(findBestSplit(nodes, list), SplitLists(nodes, list))

\* C26: when findBestSplit returns an axis, the left and right lists
\* buildHierarchy gets by sorting on that axis again and slicing at splitIndex
\* are the two sets of nodes whose cost findBestSplit found to be the least,
\* at that axis and index (as a partition: the two sets, in either order).
C26_SliceIsEvaluatedSplit ==
    lastOp = "buildTLAS" =>
        \A list \in HierarchyCalls(tlas.nodes, TlasLeafList(tlas)) :
            Len(list) >= 2 => SlicesAsEvaluated(tlas.nodes, list)

\* --------------------------------------------------------------------- C27
\* The AABB centres of all nodes of the list coincide.
CentersCoincide(nodes, list) ==
    \A a \in Members(list), b \in Members(list) :
        getCenter(nodes[a].aabb) = getCenter(nodes[b].aabb)

\* C27: a list of n >= 2 nodes whose AABB centres all coincide is split at
\* index floor(n / 2): the sizes of the left and the right list differ by at
\* most one.
C27_CoincidingCentersSplitAtMedian ==
    lastOp = "buildTLAS" =>
        \A list \in HierarchyCalls(tlas.nodes, TlasLeafList(tlas)) :
            (Len(list) >= 2 /\ CentersCoincide(tlas.nodes, list)) =>
                /\ Len(SplitLists(tlas.nodes, list).left) = Len(list) \div 2
                /\ Abs(Len(SplitLists(tlas.nodes, list).left)
                       - Len(SplitLists(tlas.nodes, list).right)) <= 1

\* --------------------------------------------------------------------- C28
\* buildHierarchy(list) calls buildHierarchy on the same list again: the
\* list is not the base case and one of the slices it recurses into is the
\* list itself.  (For the empty list findBestSplit runs no iteration and
\* returns axis -1, the fallback slices at mid = 0, and both slices are the
\* empty list.)
CallsItself(nodes, list) ==
    /\ Len(list) # 1
    /\ \/ SplitLists(nodes, list).left = list
       \/ SplitLists(nodes, list).right = list

\* The constructor fails in buildTLAS exactly when the leaf list buildTree
\* hands to buildHierarchy makes it call itself without end.
ThrowIsSelfCall ==
    lastOp \in {"buildTLAS", "buildTLAS threw"} =>
        LET Diverges(lv) == CallsItself(lv.st.nodes, lv.leafNodes)
        IN (lastOp = "buildTLAS threw") <=> Diverges(TlasLeaves(blasInstances, blasOffsetMap))

\* C28: the construction of the TLAS terminates for every instance list,
\* the empty list and a list without any known blasOffset included:
\* buildTLAS returns with the new TLAS.
C28_TlasConstructionTerminates == lastOp # "buildTLAS threw"

\* --------------------------------------------------------------------- C29
\* The offset at which the most recently created BLAS of the id was
\* registered: the last entry of the map, in insertion order, with the id.
LatestOffset(id) ==
    blasOffsetMap[CHOOSE k \in 1 .. Len(blasOffsetMap) :
                     /\ blasOffsetMap[k].blas.id = id
                     /\ \A j \in 1 .. Len(blasOffsetMap) :
                           blasOffsetMap[j].blas.id = id => j <= k].offset

\* C29: getBlasOffset(id), called after createBLAS(id, v), returns the offset
\* at which the most recently created BLAS of that id was registered, also
\* when an earlier BLAS was created with the same id.
C29_OffsetOfLatestBlas ==
    [][\A id \in QueryIds :
          (GetBlasOffset(id) /\ Registered(id)) => returned'.value = LatestOffset(id)]_vars

\* --------------------------------------------------------- scaled instances
\* Scenes of one single-voxel BLAS (the voxel [-2, 2]^3) and two instances of
\* it, each scaled uniformly by one of ScaleFactors about its centre and
\* placed at one of ScaleOffsets: transform is translate(d) * scale(k) and
\* transformInverse its inverse, scale(1 / k) * translate(-d).  The rays run
\* along an axis and start outside the box of the whole scene, on even
\* coordinates, so that every object-space coordinate is a whole number.
ScaleFactors == {1, 2}
ScaleOffsets == {<<0, 0, 0>>, <<-8, 0, 0>>, <<0, 0, 12>>}
ScaledInstance(k, d) ==
    [transform |-> <<k, 0, 0, 0,  0, k, 0, 0,  0, 0, k, 0,  d[1], d[2], d[3], 1>>,
     transformInverse |-> <<1, 0, 0, 0,  0, 1, 0, 0,  0, 0, 1, 0,
                            -d[1], -d[2], -d[3], k,  k>>,
     blasOffset |-> 0, materialIdx |-> 0]
ScaleRays ==
    {[origin |-> <<-20, 0, 0>>, direction |-> <<1, 0, 0>>],
     [origin |-> <<20, 2, 2>>, direction |-> <<-1, 0, 0>>],
     [origin |-> <<0, 2, 30>>, direction |-> <<0, 0, -1>>],
     [origin |-> <<2, 0, -20>>, direction |-> <<0, 0, 1>>]}
InitScale ==
    \E k1 \in ScaleFactors, k2 \in ScaleFactors, d1 \in ScaleOffsets, d2 \in ScaleOffsets :
        SceneOf("a", OneVoxel,
                ArrPush(ArrPush(EmptyArr, ScaledInstance(k1, d1)), ScaledInstance(k2, d2)))
NextScale == NextTraceOnly \/ \E r \in ScaleRays : StartTrace(r)
SpecScale == InitScale /\ [][NextScale]_vars

\* The distance, in world space, from the origin of an axis-parallel ray to a
\* point on it.
WorldDistance(r, p) == Abs(p[RayAxis(r)] - r.origin[RayAxis(r)])

\* The world-space distances at which the ray enters the voxels of the
\* instances it hits.
WorldHitDistances(r) ==
    {BoxDistance(r, b.min, b.max) :
        b \in {c \in PlacedBoxes : RayMeetsBox(r, c.min, c.max)
                                   /\ BoxDistance(r, c.min, c.max) > 0}}

\* C30: with instances of different uniform scales the t values traceTLAS
\* compares are world-space distances, so the hit traceTLAS returns is the
\* one whose world-space position is nearest to the ray origin among all
\* instances hit.
C30_NearestInWorldSpace ==
    (pc = "done" /\ hitInfo.hit) =>
        WorldDistance(ray, hitInfo.position) = SetMin(WorldHitDistances(ray))

====
